---- MODULE Spec2Model ----
(***************************************************************************)
(* State-machine model of the YTSage Telegram bot front end:               *)
(*   - the Access Gate (attempts log, allow-list, admin approval),         *)
(*   - the Selection Store (format_selections with TTL sweep),             *)
(*   - the update handlers of src/bot/handlers.py, cut at their awaits,    *)
(*   - the download job with credential refresh and retry                  *)
(*     (download_with_callbacks of src/bot/service.py).                    *)
(* Handlers are coroutines of one asyncio loop: every action below is the  *)
(* code between two awaits and is therefore atomic.                        *)
(***************************************************************************)
EXTENDS Integers, Sequences, FiniteSets, TLC

(* ------------------------------ bounds -------------------------------- *)
MaxHandlers == 2
MaxUpdates == 3
MaxTokens == 2
MaxOptions == 2
MaxTicks == 3
MaxJobs == 2
\* Callbacks of one download job, force_update calls after it, and the
\* seconds the monotonic clock is followed for.
MaxCallbacks == 3
MaxForces == 2
MaxMono == 5
TickSeconds == 1800

(* ------------------------- program constants -------------------------- *)
\* Python's None; every id of the model is a positive integer.
None == 0
\* handlers.py:24  SELECTION_TTL_SECONDS = 60 * 60
SELECTION_TTL_SECONDS == 3600
\* Variant of the application that handles updates concurrently
\* (ApplicationBuilder().concurrent_updates(True)).
ConcurrentDispatch == TRUE

\* app.py:25: ApplicationBuilder() is built without concurrent_updates and the
\* handlers are added with the default block=True: updates are handled one
\* after the other.
concurrent_updates == FALSE

(* ----------------------------- principals ----------------------------- *)
AdminId == 3
UserIds == {1, 2, AdminId}
\* config.cookie_file when it is configured (config.py)
CookieFile == 1
\* (user id, chat id) of an update: private chats (chat id = user id).
Senders == {<<1, 1>>, <<2, 2>>, <<AdminId, AdminId>>}
Handlers == 1..MaxHandlers
Tokens == 1..MaxTokens
Jobs == 1..MaxJobs

VARIABLES
    \* BotConfig (config.py), read once per process by load_config
    beta_enabled, admin_chat_id, env_allowed_ids, allowed_chat_ids,
    \* application.bot_data
    runtime_allowed_ids, attempts_seen, attempts_loaded, format_selections,
    \* files
    attempts_file, whitelist_file,
    \* environment
    now, ioFaults, concurrent, nextToken, nUpdates,
    \* handler coroutines
    pc, upd, out,
    \* history
    notifCount, downloadsOf, refusedFor, issued, approvedIds,
    \* download jobs (service.py): configuration, the credential file, the
    \* process-wide _REFRESH_LOCK and each job's position and locals
    cookie_cfg, cookie_state, refresh_lock, jpc, jcookie, jtrace, jresult,
    \* ProgressReporter (handlers.py:43-104): the monotonic clock, the
    \* reporter's fields, the caller's position, the edits of the status
    \* message that were scheduled, and the calls made so far
    mono, last_send, progress_state, bpc, edits, ncallbacks, force_calls,
    \* _handle_download after the job returned (handlers.py:710-795)
    dpc, dinput, dfiles, send_path, uploads,
    \* what the thread of the event loop is executing: nothing of a handler
    \* ("free": it waits on an await) or a synchronous call
    loop_thread,
    \* a function of the program under inspection: its arguments and result
    call_args, call_result

cfgVars == <<beta_enabled, admin_chat_id, env_allowed_ids, allowed_chat_ids>>
gateVars == <<runtime_allowed_ids, attempts_seen, attempts_loaded, attempts_file, whitelist_file>>
envVars == <<now, ioFaults, concurrent, nextToken, nUpdates>>
histVars == <<notifCount, downloadsOf, refusedFor, issued, approvedIds>>
frontVars == <<cfgVars, gateVars, format_selections, envVars, pc, upd, out, histVars>>
jobVars == <<cookie_cfg, cookie_state, refresh_lock, jpc, jcookie, jtrace, jresult>>
bridgeVars == <<mono, last_send, progress_state, bpc, edits, ncallbacks, force_calls>>
deliveryVars == <<dpc, dinput, dfiles, send_path, uploads, loop_thread>>
fnVars == <<call_args, call_result>>
sessionVars == <<bridgeVars, deliveryVars, fnVars>>
vars == <<frontVars, jobVars, sessionVars>>

(* ------------------------------ helpers ------------------------------- *)
FileLines(f) == {f[i] : i \in DOMAIN f}

\* Outcomes of a file operation: it succeeds, or (in a faulty environment)
\* raises OSError.
IoOutcomes == IF ioFaults THEN BOOLEAN ELSE {TRUE}

NoUpdate ==
    [kind |-> "none", user |-> None, chat |-> None, arg |-> "none",
     tok |-> 0, idx |-> 0, target |-> None]

NoOutcome ==
    [reply |-> "none", pending |-> 0, notified |-> 0, isNew |-> FALSE,
     allowed |-> FALSE, prior |-> FALSE, discovery |-> FALSE, download |-> FALSE,
     lookedUp |-> FALSE, found |-> FALSE, afterUse |-> FALSE, stale |-> FALSE,
     afterRefusal |-> FALSE, owner |-> None]

\* A token no Selection was stored under yet.
NoIssue == [owner |-> None, nopts |-> 0]

(* ---------------------------- Access Gate ----------------------------- *)
\* _record_attempt, lines 147-149
AttemptId(u) == IF u.user # None THEN u.user ELSE u.chat

\* Variant of _load_attempts_once that marks the log loaded without reading it.
LoadWithoutReading(seen, loaded, file, readOk) == [seen |-> seen, loaded |-> TRUE]

\* _load_attempts_once: [seen, loaded] after the call
LoadAttemptsOnce(seen, loaded, file, readOk) ==
    IF loaded THEN [seen |-> seen, loaded |-> TRUE]
    ELSE IF readOk THEN [seen |-> seen \cup FileLines(file), loaded |-> TRUE]
    ELSE [seen |-> seen, loaded |-> TRUE]

\* Variant of _record_attempt that inserts the id into the set before it
\* appends it to the log.
RecordInsertFirst(u, seen, loaded, file, readOk, writeOk) ==
    LET id == AttemptId(u)
        st == LoadAttemptsOnce(seen, loaded, file, readOk)
    IN  IF id = None
        THEN [seen |-> seen, loaded |-> loaded, file |-> file, isNew |-> FALSE]
        ELSE IF id \in st.seen
        THEN [seen |-> st.seen, loaded |-> st.loaded, file |-> file, isNew |-> FALSE]
        ELSE IF ~writeOk
        THEN [seen |-> st.seen \cup {id}, loaded |-> st.loaded, file |-> file,
              isNew |-> FALSE]
        ELSE [seen |-> st.seen \cup {id}, loaded |-> st.loaded,
              file |-> Append(file, id), isNew |-> TRUE]

\* _record_attempt: [seen, loaded, file, isNew] after the call
RecordAttempt(u, seen, loaded, file, readOk, writeOk) ==
    LET id == AttemptId(u)
        st == LoadAttemptsOnce(seen, loaded, file, readOk)
    IN  IF id = None
        THEN [seen |-> seen, loaded |-> loaded, file |-> file, isNew |-> FALSE]
        ELSE IF id \in st.seen
        THEN [seen |-> st.seen, loaded |-> st.loaded, file |-> file, isNew |-> FALSE]
        ELSE IF ~writeOk
        THEN [seen |-> st.seen, loaded |-> st.loaded, file |-> file, isNew |-> FALSE]
        ELSE [seen |-> st.seen \cup {id}, loaded |-> st.loaded,
              file |-> Append(file, id), isNew |-> TRUE]

\* Variant of _combined_allowed_ids that forgets the runtime approvals.
ConfiguredIdsOnly(cfgAllowed, runtime) ==
    IF ~cfgAllowed.isNone /\ cfgAllowed.ids # {} THEN cfgAllowed.ids ELSE {}

\* _combined_allowed_ids
CombinedAllowedIds(cfgAllowed, runtime) ==
    (IF ~cfgAllowed.isNone /\ cfgAllowed.ids # {} THEN cfgAllowed.ids ELSE {}) \cup runtime

\* Variant of _is_admin that takes every sender for the administrator.
EverybodyIsAdmin(u, admin) == TRUE

\* _is_admin
IsAdmin(u, admin) ==
    IF admin = None THEN FALSE ELSE admin \in {u.user, u.chat}

\* Variant of _is_allowed that gates even when gating is disabled.
GateWhenDisabled(u, beta, admin, cfgAllowed, runtime) ==
    \/ admin # None /\ admin \in {u.user, u.chat}
    \/ {u.user, u.chat} \cap
            ((IF ~cfgAllowed.isNone THEN cfgAllowed.ids ELSE {}) \cup runtime) # {}

\* Variant of _is_allowed that gates only when an administrator is
\* configured.
AllowWithoutAdmin(u, beta, admin, cfgAllowed, runtime) ==
    \/ ~beta
    \/ admin = None
    \/ admin \in {u.user, u.chat}
    \/ {u.user, u.chat} \cap
            ((IF ~cfgAllowed.isNone THEN cfgAllowed.ids ELSE {}) \cup runtime) # {}

\* Variant of _is_allowed that lets everybody in.
AllowEverybody(u, beta, admin, cfgAllowed, runtime) == TRUE

\* _is_allowed
IsAllowed(u, beta, admin, cfgAllowed, runtime) ==
    IF ~beta THEN TRUE
    ELSE IF IsAdmin(u, admin) THEN TRUE
    ELSE LET allowed == CombinedAllowedIds(cfgAllowed, runtime)
         IN  IF allowed = {} THEN FALSE
             ELSE (u.user # None /\ u.user \in allowed) \/ (u.chat # None /\ u.chat \in allowed)

\* Variant of _append_to_whitelist that opens the file for writing rather
\* than for appending.
OverwriteWhitelist(file, id, writeOk) ==
    IF ~writeOk THEN file
    ELSE IF id \in FileLines(file) THEN file
    ELSE <<id>>

\* Variant of _append_to_whitelist that writes nothing.
AppendNothing(file, id, writeOk) == file

\* _append_to_whitelist: the file after the call
AppendToWhitelist(file, id, writeOk) ==
    IF ~writeOk THEN file
    ELSE IF id \in FileLines(file) THEN file
    ELSE Append(file, id)

\* load_config, lines 105-114: allowed_chat_ids from the environment and the
\* whitelist file
LoadAllowedChatIds(envIds, file) ==
    IF envIds # {} \/ FileLines(file) # {}
    THEN [isNone |-> FALSE, ids |-> FileLines(file) \cup envIds]
    ELSE [isNone |-> TRUE, ids |-> {}]

(* --------------------------- Selection Store -------------------------- *)
\* Variant of _cleanup_selections that evicts nothing.
CleanupNothing(store, t) == store

\* _cleanup_selections
CleanupSelections(store, t) ==
    [k \in {x \in DOMAIN store : ~(t - store[x].created_at > SELECTION_TTL_SECONDS)}
        |-> store[k]]

\* Variant of the store write that shows the prompt and stores nothing.
PutNothing(store, tok, u, nopts, t) == store

\* store[selection_id] = {...}, lines 538-545
PutSelection(store, tok, u, nopts, t) ==
    [k \in (DOMAIN store) \cup {tok} |->
        IF k = tok
        THEN [owner_id |-> u.user, chat_id |-> u.chat, nopts |-> nopts, created_at |-> t]
        ELSE store[k]]

\* Variant of the pop that leaves the picked Selection for a later pick.
KeepSelection(store, tok) == store

\* Variant of the pop that reads the Selection and leaves it in the store
\* (store.get).
GetSelection(store, tok) == store

\* Variant of the pop that drops the other entries and keeps the picked one.
PopOtherSelections(store, tok) == [k \in (DOMAIN store) \cap {tok} |-> store[k]]

\* store.pop(selection_id, None), line 645
PopSelection(store, tok) == [k \in (DOMAIN store) \ {tok} |-> store[k]]

\* Variant of the owner check that accepts every principal.
NoOwnerCheck(sel, u) == FALSE

\* format_selection_callback, lines 633-634: the Selection has an owner and
\* the update has a user that is not the owner
OwnerMismatch(sel, u) ==
    sel.owner_id # None /\ u.user # None /\ u.user # sel.owner_id

\* Variant of the index check that only refuses negative indexes.
IndexBelowZero(idx, nopts) == idx < 0

\* format_selection_callback, line 639: the index is outside the option list
IndexOutOfRange(idx, nopts) == idx < 0 \/ idx >= nopts

(* ------------------------------ updates ------------------------------- *)
\* The updates a sender can produce. Commands and text messages carry a
\* YouTube URL ("yt"), another URL ("other") or none; a format pick carries
\* "fmt:<token>:<idx>" or malformed data; an approval callback carries
\* "beta:<action>:<user id>" or malformed data.
MessageUpdates(s) ==
    {[NoUpdate EXCEPT !.kind = "start", !.user = s[1], !.chat = s[2]]}
    \cup {[NoUpdate EXCEPT !.kind = k, !.user = s[1], !.chat = s[2], !.arg = a] :
            k \in {"url", "dlcmd"}, a \in {"yt", "other", "none"}}

PickUpdates(s) ==
    {[NoUpdate EXCEPT !.kind = "pick", !.user = s[1], !.chat = s[2], !.arg = "ok",
                      !.tok = t, !.idx = i] : t \in Tokens, i \in 0..MaxOptions}
    \cup {[NoUpdate EXCEPT !.kind = "pick", !.user = s[1], !.chat = s[2], !.arg = a] :
            a \in {"badparts", "badidx"}}

BetaUpdates(s) ==
    {[NoUpdate EXCEPT !.kind = "beta", !.user = s[1], !.chat = s[2], !.arg = a,
                      !.target = p] : a \in {"approve", "decline", "other"}, p \in {1, 2}}
    \cup {[NoUpdate EXCEPT !.kind = "beta", !.user = s[1], !.chat = s[2], !.arg = a] :
            a \in {"badparts", "badid"}}

(* ------------------------------- Init --------------------------------- *)
InitGate ==
    /\ whitelist_file = <<>>
    /\ allowed_chat_ids = LoadAllowedChatIds(env_allowed_ids, whitelist_file)
    /\ runtime_allowed_ids = {}
    /\ attempts_seen = {}
    /\ attempts_loaded = FALSE
    /\ attempts_file = <<>>
    /\ format_selections = <<>>
    /\ now = 0
    /\ nextToken = 1
    /\ nUpdates = 0
    /\ pc = [h \in Handlers |-> "idle"]
    /\ upd = [h \in Handlers |-> NoUpdate]
    /\ out = [h \in Handlers |-> NoOutcome]
    /\ notifCount = [p \in UserIds |-> 0]
    /\ downloadsOf = [t \in Tokens |-> 0]
    /\ refusedFor = {}
    /\ issued = [t \in Tokens |-> NoIssue]
    /\ approvedIds = {}

\* No download job is inspected: the job variables rest.
InitNoJobs ==
    /\ cookie_cfg = [cookie_file |-> None, cookie_auto_refresh |-> FALSE,
                     refresh_method |-> FALSE]
    /\ cookie_state = "absent"
    /\ refresh_lock = None
    /\ jpc = [j \in Jobs |-> "off"]
    /\ jcookie = [j \in Jobs |-> None]
    /\ jtrace = [j \in Jobs |-> <<>>]
    /\ jresult = [j \in Jobs |-> "none"]

\* No job result and no file.
NoInput == [ok |-> FALSE, audio |-> FALSE, compatible |-> FALSE, cleanup |-> FALSE]
NoFiles == [original |-> None, converted |-> None, transcode |-> "none", deleted |-> {}]

\* No function is inspected.
InitNoCall ==
    /\ call_args = None
    /\ call_result = None

\* No download session is inspected: the reporter and the delivery rest.
InitNoReporter ==
    /\ mono = 0
    /\ last_send = 0
    /\ progress_state = [status |-> None, progress |-> None, details |-> None]
    /\ bpc = "off"
    /\ edits = <<>>
    /\ ncallbacks = 0
    /\ force_calls = <<>>

InitNoDelivery ==
    /\ dpc = "off"
    /\ dinput = NoInput
    /\ dfiles = NoFiles
    /\ send_path = "none"
    /\ uploads = <<>>
    /\ loop_thread = "free"

InitNoSession ==
    /\ InitNoReporter
    /\ InitNoDelivery
    /\ InitNoCall

\* load_config (config.py:92-175): gating flag, administrator and the
\* allow-list of the environment.
InitFront ==
    /\ beta_enabled \in BOOLEAN
    /\ admin_chat_id \in {None, AdminId}
    /\ env_allowed_ids \in {{}, {1}}
    /\ InitGate
    /\ InitNoJobs
    /\ InitNoSession

Init == InitFront /\ ioFaults = FALSE /\ concurrent = concurrent_updates

\* The same program under a dispatcher that lets handlers interleave at
\* their awaits (Application.concurrent_updates = True), with an
\* administrator and one allow-listed principal configured.
InitConcurrent ==
    /\ InitFront
    /\ admin_chat_id = AdminId
    /\ env_allowed_ids = {1}
    /\ ioFaults = FALSE
    /\ concurrent = TRUE

\* The gated program, with an administrator and no configured allow-list, on
\* a file system whose reads and writes can fail with OSError.
InitFaulty ==
    /\ InitFront
    /\ beta_enabled = TRUE
    /\ admin_chat_id = AdminId
    /\ env_allowed_ids = {}
    /\ ioFaults = TRUE
    /\ concurrent = concurrent_updates

(* --------------------------- handler actions -------------------------- *)
\* Application dispatch (app.py:28-37): the next update is handed to its
\* handler, whose code up to its first await runs at once; without
\* concurrent_updates only when no handler is running.
Admit(h) ==
    /\ pc[h] = "idle"
    /\ \A g \in Handlers : g < h => pc[g] # "idle"
    /\ concurrent \/ \A g \in Handlers : pc[g] = "idle"
    /\ nUpdates < MaxUpdates

\* The attempts state when no attempt is recorded (gating disabled).
NoRecord ==
    [seen |-> attempts_seen, loaded |-> attempts_loaded, file |-> attempts_file,
     isNew |-> FALSE]

\* start / help_command / download_command / audio_command / url_message up
\* to their first await: _ensure_allowed (lines 266-271), then _extract_url
\* and the head of _handle_url (lines 518-524).
GateStep(h) ==
    /\ Admit(h)
    /\ \E s \in Senders, readOk \in IoOutcomes, writeOk \in IoOutcomes :
       \E u \in MessageUpdates(s) :
        LET rec == IF beta_enabled
                   THEN RecordAttempt(u, attempts_seen, attempts_loaded, attempts_file,
                                      readOk, writeOk)
                   ELSE NoRecord
            allowed == IsAllowed(u, beta_enabled, admin_chat_id, allowed_chat_ids,
                                 runtime_allowed_ids)
            o == [NoOutcome EXCEPT !.isNew = rec.isNew, !.allowed = allowed,
                                   !.prior = AttemptId(u) \in FileLines(attempts_file)]
            to(p, r) == /\ pc' = [pc EXCEPT ![h] = p]
                        /\ out' = [out EXCEPT ![h] = r]
        IN  /\ (u.arg = "yt") => nextToken <= MaxTokens
            /\ upd' = [upd EXCEPT ![h] = u]
            /\ attempts_seen' = rec.seen
            /\ attempts_loaded' = rec.loaded
            /\ attempts_file' = rec.file
            /\ IF ~allowed THEN to("deny_reply", o)
               ELSE IF u.kind = "start" THEN to("done", [o EXCEPT !.reply = "welcome"])
               ELSE IF u.arg = "none"
               THEN to("done", [o EXCEPT !.reply =
                                   IF u.kind = "dlcmd" THEN "need_url" ELSE "none"])
               ELSE IF u.arg = "other" THEN to("done", [o EXCEPT !.reply = "not_youtube"])
               ELSE to("discovering", [o EXCEPT !.reply = "checking", !.discovery = TRUE])
    /\ nUpdates' = nUpdates + 1
    /\ UNCHANGED <<cfgVars, runtime_allowed_ids, whitelist_file, format_selections,
                   now, ioFaults, concurrent, nextToken, histVars, jobVars, sessionVars>>

\* _ensure_allowed, lines 272-275: the "pending" reply to a denied requester
DenyReply(h) ==
    /\ pc[h] = "deny_reply"
    /\ out' = [out EXCEPT ![h].reply = "pending", ![h].pending = @ + 1]
    /\ pc' = [pc EXCEPT ![h] = IF out[h].isNew THEN "deny_notify" ELSE "done"]
    /\ UNCHANGED <<cfgVars, gateVars, format_selections, envVars, upd, histVars, jobVars, sessionVars>>

\* _notify_admin_about_request, called for a new attempt (lines 275-276)
DenyNotify(h) ==
    /\ pc[h] = "deny_notify"
    /\ IF admin_chat_id = None \/ upd[h].user = None
       THEN UNCHANGED <<out, notifCount>>
       ELSE /\ out' = [out EXCEPT ![h].notified = @ + 1]
            /\ notifCount' = [notifCount EXCEPT ![upd[h].user] = @ + 1]
    /\ pc' = [pc EXCEPT ![h] = "done"]
    /\ UNCHANGED <<cfgVars, gateVars, format_selections, envVars, upd, downloadsOf,
                   refusedFor, issued, approvedIds, jobVars, sessionVars>>

\* _handle_url after list_formats returned (lines 525-557): n = 0 stands for
\* a failed or empty discovery, n >= 1 for n ranked options. The token is
\* secrets.token_urlsafe(8): one never issued before.
Discovered(h) ==
    /\ pc[h] = "discovering"
    /\ \E n \in 0..MaxOptions :
        IF n = 0
        THEN /\ out' = [out EXCEPT ![h].reply = "disc_error"]
             /\ UNCHANGED <<format_selections, nextToken, refusedFor, issued>>
        ELSE /\ format_selections' =
                    PutSelection(CleanupSelections(format_selections, now), nextToken,
                                 upd[h], n, now)
             /\ nextToken' = nextToken + 1
             /\ refusedFor' = refusedFor \cap DOMAIN format_selections'
             /\ issued' = [issued EXCEPT ![nextToken] = [owner |-> upd[h].user, nopts |-> n]]
             /\ out' = [out EXCEPT ![h].reply = "prompt"]
    /\ pc' = [pc EXCEPT ![h] = "done"]
    /\ UNCHANGED <<cfgVars, gateVars, now, ioFaults, concurrent, nUpdates, upd,
                   notifCount, downloadsOf, approvedIds, jobVars, sessionVars>>

\* format_selection_callback up to its first await on each path (lines
\* 603-645): access check, parsing, sweep, lookup, owner and index checks,
\* and the pop of the Selection.
PickStep(h) ==
    /\ Admit(h)
    /\ \E s \in Senders, readOk \in IoOutcomes, writeOk \in IoOutcomes :
       \E u \in PickUpdates(s) :
        LET rec == IF beta_enabled
                   THEN RecordAttempt(u, attempts_seen, attempts_loaded, attempts_file,
                                      readOk, writeOk)
                   ELSE NoRecord
            allowed == IsAllowed(u, beta_enabled, admin_chat_id, allowed_chat_ids,
                                 runtime_allowed_ids)
            swept == CleanupSelections(format_selections, now)
            o == [NoOutcome EXCEPT !.isNew = rec.isNew, !.allowed = allowed,
                                   !.prior = AttemptId(u) \in FileLines(attempts_file)]
            o2 == [o EXCEPT !.lookedUp = TRUE, !.found = u.tok \in DOMAIN swept,
                            !.afterUse = downloadsOf[u.tok] > 0,
                            !.stale = /\ u.tok \in DOMAIN format_selections
                                      /\ now - format_selections[u.tok].created_at
                                            > SELECTION_TTL_SECONDS,
                            !.afterRefusal = u.tok \in refusedFor,
                            !.owner = IF u.tok \in DOMAIN swept
                                      THEN swept[u.tok].owner_id ELSE None]
            end(r, st) == /\ pc' = [pc EXCEPT ![h] = "done"]
                          /\ out' = [out EXCEPT ![h] = r]
                          /\ format_selections' = st
                          /\ UNCHANGED downloadsOf
        IN  /\ upd' = [upd EXCEPT ![h] = u]
            /\ attempts_seen' = rec.seen
            /\ attempts_loaded' = rec.loaded
            /\ attempts_file' = rec.file
            /\ IF ~allowed
               THEN end([o EXCEPT !.reply = "restricted"], format_selections)
               ELSE IF u.arg = "badparts"
               THEN end(o, format_selections)
               ELSE IF u.arg = "badidx"
               THEN end([o EXCEPT !.reply = "bad_choice"], format_selections)
               ELSE IF u.tok \notin DOMAIN swept
               THEN end([o2 EXCEPT !.reply = "expired"], swept)
               ELSE IF OwnerMismatch(swept[u.tok], u)
               THEN end([o2 EXCEPT !.reply = "not_for_you"], swept)
               ELSE IF IndexOutOfRange(u.idx, swept[u.tok].nopts)
               THEN end([o2 EXCEPT !.reply = "bad_index"], swept)
               ELSE /\ format_selections' = PopSelection(swept, u.tok)
                    /\ out' = [out EXCEPT ![h] =
                                  [o2 EXCEPT !.reply = "started", !.download = TRUE]]
                    /\ downloadsOf' = [downloadsOf EXCEPT ![u.tok] = @ + 1]
                    /\ pc' = [pc EXCEPT ![h] = "downloading"]
            /\ refusedFor' =
                  (IF out'[h].reply = "not_for_you" THEN refusedFor \cup {u.tok}
                   ELSE refusedFor) \cap DOMAIN format_selections'
    /\ nUpdates' = nUpdates + 1
    /\ UNCHANGED <<cfgVars, runtime_allowed_ids, whitelist_file, now, ioFaults,
                   concurrent, nextToken, notifCount, issued, approvedIds, jobVars, sessionVars>>

\* _handle_download returned (lines 677-795)
DownloadDone(h) ==
    /\ pc[h] = "downloading"
    /\ pc' = [pc EXCEPT ![h] = "done"]
    /\ UNCHANGED <<cfgVars, gateVars, format_selections, envVars, upd, out, histVars,
                   jobVars, sessionVars>>

\* beta_request_callback up to its first await (lines 561-585)
BetaStep(h) ==
    /\ Admit(h)
    /\ \E s \in Senders, writeOk \in IoOutcomes :
       \E u \in BetaUpdates(s) :
        LET reply(r) == /\ out' = [out EXCEPT ![h] = [NoOutcome EXCEPT !.reply = r]]
                        /\ UNCHANGED <<runtime_allowed_ids, allowed_chat_ids, whitelist_file,
                                       approvedIds>>
        IN  /\ upd' = [upd EXCEPT ![h] = u]
            /\ IF u.arg = "badparts" THEN reply("none")
               ELSE IF ~beta_enabled THEN reply("beta_off")
               ELSE IF ~IsAdmin(u, admin_chat_id) THEN reply("no_rights")
               ELSE IF u.arg = "badid" THEN reply("bad_id")
               ELSE IF u.arg = "approve"
               THEN /\ runtime_allowed_ids' = runtime_allowed_ids \cup {u.target}
                    /\ allowed_chat_ids' =
                           IF allowed_chat_ids.isNone THEN allowed_chat_ids
                           ELSE [allowed_chat_ids EXCEPT !.ids = @ \cup {u.target}]
                    /\ whitelist_file' = AppendToWhitelist(whitelist_file, u.target, writeOk)
                    /\ approvedIds' = approvedIds \cup {u.target}
                    /\ out' = [out EXCEPT ![h] = [NoOutcome EXCEPT !.reply = "approved"]]
               ELSE IF u.arg = "decline" THEN reply("declined")
               ELSE reply("ack")
    /\ pc' = [pc EXCEPT ![h] = "done"]
    /\ nUpdates' = nUpdates + 1
    /\ UNCHANGED <<beta_enabled, admin_chat_id, env_allowed_ids, attempts_seen,
                   attempts_loaded, attempts_file, format_selections, now, ioFaults,
                   concurrent, nextToken, notifCount, downloadsOf, refusedFor, issued,
                   jobVars, sessionVars>>

\* The handler coroutine returns.
Return(h) ==
    /\ pc[h] = "done"
    /\ pc' = [pc EXCEPT ![h] = "idle"]
    /\ upd' = [upd EXCEPT ![h] = NoUpdate]
    /\ out' = [out EXCEPT ![h] = NoOutcome]
    /\ UNCHANGED <<cfgVars, gateVars, format_selections, envVars, histVars, jobVars, sessionVars>>

\* The process is stopped between two updates and started again (app.py
\* run): bot_data is rebuilt empty, load_config reads the whitelist again,
\* the files stay.
Restart ==
    /\ \A h \in Handlers : pc[h] = "idle"
    /\ runtime_allowed_ids' = {}
    /\ attempts_seen' = {}
    /\ attempts_loaded' = FALSE
    /\ format_selections' = <<>>
    /\ refusedFor' = {}
    /\ allowed_chat_ids' = LoadAllowedChatIds(env_allowed_ids, whitelist_file)
    /\ UNCHANGED <<beta_enabled, admin_chat_id, env_allowed_ids, attempts_file,
                   whitelist_file, envVars, pc, upd, out, notifCount, downloadsOf, issued,
                   approvedIds, jobVars, sessionVars>>

\* time.time() advances
Tick ==
    /\ now < MaxTicks * TickSeconds
    /\ now' = now + TickSeconds
    /\ UNCHANGED <<cfgVars, gateVars, format_selections, ioFaults, concurrent, nextToken,
                   nUpdates, pc, upd, out, histVars, jobVars, sessionVars>>

Next ==
    \/ \E h \in Handlers :
        \/ GateStep(h)
        \/ DenyReply(h)
        \/ DenyNotify(h)
        \/ Discovered(h)
        \/ PickStep(h)
        \/ DownloadDone(h)
        \/ BetaStep(h)
        \/ Return(h)
    \/ Restart
    \/ Tick

Spec == Init /\ [][Next]_vars

\* One run of the process under the interleaving dispatcher: requests,
\* discoveries, picks and the clock.
NextConcurrent ==
    \/ \E h \in Handlers :
        \/ GateStep(h)
        \/ DenyReply(h)
        \/ DenyNotify(h)
        \/ Discovered(h)
        \/ PickStep(h)
        \/ DownloadDone(h)
        \/ Return(h)
    \/ Tick

SpecConcurrent == InitConcurrent /\ [][NextConcurrent]_vars

SpecFaulty == InitFaulty /\ [][Next]_vars

(* ---------------------------- download job ---------------------------- *)
\* download_with_callbacks (service.py:55-206) runs in a worker thread
\* (asyncio.to_thread) that its handler awaits (handlers.py:698): a job
\* starts when its handler is dispatched, so jobs overlap only under a
\* dispatcher that interleaves handlers. The credential file is "absent",
\* "stale" (present, expired or without a valid entry) or "fresh".

\* is_cookie_file_expired (ytsage_cookies.py:89-108)
IsCookieFileExpired(state) == state # "fresh"

\* Variant of the binding that passes the configured credential file to the
\* job whether it exists or not.
ConfiguredCookieFile(cfgFile, state) == cfgFile

\* service.py:97-100: the job's local cookie_file
LocalCookieFile(cfgFile, state) ==
    IF cfgFile # None /\ state # "absent" THEN cfgFile ELSE None

\* service.py:200-203: cookie_file_retry
RetryCookieFile(cfgFile, state) ==
    IF cfgFile # None /\ state # "absent" THEN cfgFile ELSE None

\* refresh_cookie_file (ytsage_cookies.py:210-221): the results a refresh can
\* report, "failed" only when no refresh method is configured
RefreshOutcomes(method) == IF method THEN {"ok", "failed"} ELSE {"failed"}

\* The credential file after a refresh (_run_refresh_command,
\* _export_cookies_from_browser): a success leaves a non-empty file, whose
\* entries may be valid or not; a failure may have written the file.
AfterRefresh(state, method, res) ==
    IF ~method THEN {state}
    ELSE IF res = "ok" THEN {"fresh", "stale"}
    ELSE {state, "stale"}

\* Variant of the retry decision that asks for a refresh after every
\* auth-rejected attempt.
RetryAfterEveryRun(at, res, auto) ==
    IF res = "auth" /\ auto THEN "forcing" ELSE "returned"

\* _run_once (service.py:102-176): the results of an attempt. "ok"; a failure
\* whose error text holds an auth-rejection phrase, in the markers' lower
\* case ("auth") or in another case ("AUTH", as in "Sign in to confirm");
\* a failure with another text; a failure with no text.
RunResults == {"ok", "auth", "AUTH", "other", "empty"}

\* service.py:182: error_text = result.error.lower()
Lower(text) == IF text = "AUTH" THEN "auth" ELSE text

\* service.py:183-189: any(marker in error_text for marker in
\* invalid_cookie_markers), the markers being lower-case phrases
HasInvalidCookieMarker(error_text) == error_text = "auth"

\* Variant of the retry decision that asks for a refresh after every failed
\* first attempt.
RetryOnAnyFailure(at, res, auto) ==
    IF at = "run1" /\ res # "ok" THEN "forcing" ELSE "returned"

\* service.py:178-189 after the first _run_once, line 204 after the second:
\* where the job goes after an attempt
NextAfterRun(at, res, auto) ==
    IF /\ at = "run1"
       /\ res \notin {"ok", "empty"}
       /\ auto
       /\ HasInvalidCookieMarker(Lower(res))
    THEN "forcing"
    ELSE "returned"

\* Variant of the retry step that gives up after the refresh.
NoRetry(res) == "returned"

\* service.py:197-206: a second attempt iff the forced refresh succeeded
AfterForcedRefresh(res) == IF res = "ok" THEN "run2" ELSE "returned"

Event(e, c, r) == [ev |-> e, cookie |-> c, res |-> r]

InitJobs ==
    /\ cookie_cfg \in [cookie_file : {None, CookieFile}, cookie_auto_refresh : BOOLEAN,
                       refresh_method : BOOLEAN]
    /\ cookie_state \in {"absent", "stale", "fresh"}
    /\ cookie_cfg.cookie_file = None => cookie_state = "absent"
    /\ refresh_lock = None
    /\ jpc = [j \in Jobs |-> "start"]
    /\ jcookie = [j \in Jobs |-> None]
    /\ jtrace = [j \in Jobs |-> <<>>]
    /\ jresult = [j \in Jobs |-> "none"]

\* The process with gating disabled and no update in flight; only the
\* download jobs move.
InitJob ==
    /\ beta_enabled = FALSE
    /\ admin_chat_id = None
    /\ env_allowed_ids = {}
    /\ InitGate
    /\ ioFaults = FALSE
    /\ concurrent = concurrent_updates
    /\ InitJobs
    /\ InitNoSession

\* handlers.py:698, service.py:65-71: the handler of the job is dispatched
\* and the job starts; yt-dlp is present or gets installed, or the job fails
JSetup(j) ==
    /\ jpc[j] = "start"
    /\ concurrent \/ \A k \in Jobs : jpc[k] \in {"start", "returned"}
    /\ \E ok \in BOOLEAN :
        IF ok
        THEN /\ jpc' = [jpc EXCEPT ![j] = "ensure"]
             /\ UNCHANGED jresult
        ELSE /\ jpc' = [jpc EXCEPT ![j] = "returned"]
             /\ jresult' = [jresult EXCEPT ![j] = "setup_failed"]
    /\ UNCHANGED <<frontVars, sessionVars, cookie_cfg, cookie_state, refresh_lock, jcookie, jtrace>>

\* ensure_fresh_cookies, lines 251-255: the checks made without the lock
JEnsure(j) ==
    /\ jpc[j] = "ensure"
    /\ jpc' = [jpc EXCEPT ![j] =
                  IF ~cookie_cfg.cookie_auto_refresh \/ cookie_cfg.cookie_file = None
                  THEN "bind"
                  ELSE IF ~IsCookieFileExpired(cookie_state) THEN "bind"
                  ELSE "lock"]
    /\ UNCHANGED <<frontVars, sessionVars, cookie_cfg, cookie_state, refresh_lock, jcookie, jtrace,
                   jresult>>

\* Variant of the check under the lock that refreshes whatever the file's
\* state is once the lock is held.
SkipRecheck(state) == TRUE

\* ensure_fresh_cookies, lines 258-259: the expiry check repeated under
\* _REFRESH_LOCK
StillExpiredUnderLock(state) == IsCookieFileExpired(state)

\* ensure_fresh_cookies, lines 257-259: _REFRESH_LOCK is taken and the file
\* is checked again; a job that finds it fresh returns from ensure_fresh_cookies
\* (the trace keeps the event "recheck")
JLock(j) ==
    /\ jpc[j] = "lock"
    /\ refresh_lock = None
    /\ IF ~StillExpiredUnderLock(cookie_state)
       THEN /\ jpc' = [jpc EXCEPT ![j] = "bind"]
            /\ jtrace' = [jtrace EXCEPT ![j] =
                             Append(@, Event("recheck", cookie_cfg.cookie_file, "fresh"))]
            /\ UNCHANGED refresh_lock
       ELSE /\ jpc' = [jpc EXCEPT ![j] = "prefresh"]
            /\ refresh_lock' = j
            /\ UNCHANGED jtrace
    /\ UNCHANGED <<frontVars, sessionVars, cookie_cfg, cookie_state, jcookie, jresult>>

\* ensure_fresh_cookies, lines 261-279: the refresh under the lock returns
JPreflightDone(j) ==
    /\ jpc[j] = "prefresh"
    /\ \E res \in RefreshOutcomes(cookie_cfg.refresh_method) :
       \E st \in AfterRefresh(cookie_state, cookie_cfg.refresh_method, res) :
        /\ cookie_state' = st
        /\ jtrace' = [jtrace EXCEPT ![j] =
                         Append(@, Event("preflight", cookie_cfg.cookie_file, res))]
    /\ refresh_lock' = None
    /\ jpc' = [jpc EXCEPT ![j] = "bind"]
    /\ UNCHANGED <<frontVars, sessionVars, cookie_cfg, jcookie, jresult>>

\* service.py:97-100
JBind(j) ==
    /\ jpc[j] = "bind"
    /\ jcookie' = [jcookie EXCEPT ![j] = LocalCookieFile(cookie_cfg.cookie_file, cookie_state)]
    /\ jpc' = [jpc EXCEPT ![j] = "run1"]
    /\ UNCHANGED <<frontVars, sessionVars, cookie_cfg, cookie_state, refresh_lock, jtrace, jresult>>

\* _run_once (service.py:102-176) at lines 178 and 204: the result is ok, an
\* error with an auth-rejection marker, or another error
JRun(j) ==
    /\ jpc[j] \in {"run1", "run2"}
    /\ \E res \in RunResults :
        /\ jtrace' = [jtrace EXCEPT ![j] = Append(@, Event("run", jcookie[j], res))]
        /\ jresult' = [jresult EXCEPT ![j] = res]
        /\ jpc' = [jpc EXCEPT ![j] = NextAfterRun(jpc[j], res, cookie_cfg.cookie_auto_refresh)]
    /\ UNCHANGED <<frontVars, sessionVars, cookie_cfg, cookie_state, refresh_lock, jcookie>>

\* service.py:191, refresh_cookies_now lines 230-234: the forced refresh is
\* called with the job's local cookie_file, without _REFRESH_LOCK
JForceBegin(j) ==
    /\ jpc[j] = "forcing"
    /\ IF jcookie[j] = None
       THEN /\ jtrace' = [jtrace EXCEPT ![j] = Append(@, Event("forced", None, "failed"))]
            /\ jpc' = [jpc EXCEPT ![j] = AfterForcedRefresh("failed")]
       ELSE /\ jpc' = [jpc EXCEPT ![j] = "frefresh"]
            /\ UNCHANGED jtrace
    /\ UNCHANGED <<frontVars, sessionVars, cookie_cfg, cookie_state, refresh_lock, jcookie, jresult>>

\* service.py:191-204: the forced refresh returns
JForceDone(j) ==
    /\ jpc[j] = "frefresh"
    /\ \E res \in RefreshOutcomes(cookie_cfg.refresh_method) :
       \E st \in AfterRefresh(cookie_state, cookie_cfg.refresh_method, res) :
        /\ cookie_state' = st
        /\ jtrace' = [jtrace EXCEPT ![j] = Append(@, Event("forced", jcookie[j], res))]
        /\ jcookie' = [jcookie EXCEPT ![j] =
                          IF res = "ok" THEN RetryCookieFile(cookie_cfg.cookie_file, st)
                          ELSE @]
        /\ jpc' = [jpc EXCEPT ![j] = AfterForcedRefresh(res)]
    /\ UNCHANGED <<frontVars, sessionVars, cookie_cfg, refresh_lock, jresult>>

\* _run_refresh_command (ytsage_cookies.py:127-133): subprocess.run is
\* called without a timeout argument
RefreshTimeout == None

\* _run_refresh_command, lines 127-133: the refresh command never exits; with
\* no timeout subprocess.run never returns, the calling job stays in the
\* refresh and a pre-flight refresh keeps _REFRESH_LOCK
JCommandHangs(j) ==
    /\ jpc[j] \in {"prefresh", "frefresh"}
    /\ cookie_cfg.refresh_method
    /\ RefreshTimeout = None
    /\ jpc' = [jpc EXCEPT ![j] = "hung"]
    /\ UNCHANGED <<frontVars, sessionVars, cookie_cfg, cookie_state, refresh_lock, jcookie, jtrace,
                   jresult>>

\* Time passes: the entries of the credential file expire.
CookieExpires ==
    /\ cookie_state = "fresh"
    /\ cookie_state' = "stale"
    /\ UNCHANGED <<frontVars, sessionVars, cookie_cfg, refresh_lock, jpc, jcookie, jtrace, jresult>>

NextJob ==
    \/ \E j \in Jobs :
        \/ JSetup(j)
        \/ JEnsure(j)
        \/ JLock(j)
        \/ JPreflightDone(j)
        \/ JBind(j)
        \/ JRun(j)
        \/ JForceBegin(j)
        \/ JForceDone(j)
        \/ JCommandHangs(j)
    \/ CookieExpires

SpecJob == InitJob /\ [][NextJob]_vars

\* The steps of a job that its worker thread takes by itself.
JobStep(j) ==
    \/ JSetup(j)
    \/ JEnsure(j)
    \/ JLock(j)
    \/ JPreflightDone(j)
    \/ JBind(j)
    \/ JRun(j)
    \/ JForceBegin(j)
    \/ JForceDone(j)

\* The jobs under a dispatcher that interleaves handlers, or with two bots
\* of one process sharing the credential file: download jobs overlap.
InitJobConcurrent ==
    /\ beta_enabled = FALSE
    /\ admin_chat_id = None
    /\ env_allowed_ids = {}
    /\ InitGate
    /\ ioFaults = FALSE
    /\ concurrent = TRUE
    /\ InitJobs
    /\ InitNoSession

SpecJobConcurrent == InitJobConcurrent /\ [][NextJob]_vars

\* The jobs under a fair scheduler: a worker thread that can take a step
\* eventually takes it (asyncio.to_thread, handlers.py:698); a refresh
\* command that exits does so in finite time.
SpecJobLive == InitJob /\ [][NextJob]_vars /\ \A j \in Jobs : WF_vars(JobStep(j))

(* --------------------------- access decision -------------------------- *)
\* The senders of an update in general: a user or none (channel post), in a
\* private chat, a group (chat id 4) or no chat.
AnySenders == {<<us, c>> : us \in {None, 1, 2, AdminId}, c \in {None, 1, 2, AdminId, 4}}

\* A process whose allow-lists hold anything the program can put there:
\* ids of the environment, of the whitelist file, and runtime approvals.
InitAccess ==
    /\ beta_enabled \in BOOLEAN
    /\ admin_chat_id \in {None, AdminId}
    /\ env_allowed_ids \in {{}, {1}}
    /\ whitelist_file \in {<<>>, <<2>>}
    /\ allowed_chat_ids = LoadAllowedChatIds(env_allowed_ids, whitelist_file)
    /\ runtime_allowed_ids \in {{}, {2}, {4}}
    /\ attempts_seen = {}
    /\ attempts_loaded = FALSE
    /\ attempts_file = <<>>
    /\ format_selections = <<>>
    /\ now = 0
    /\ nextToken = 1
    /\ nUpdates = 0
    /\ pc = [h \in Handlers |-> "idle"]
    /\ upd = [h \in Handlers |-> NoUpdate]
    /\ out = [h \in Handlers |-> NoOutcome]
    /\ notifCount = [p \in UserIds |-> 0]
    /\ downloadsOf = [t \in Tokens |-> 0]
    /\ refusedFor = {}
    /\ issued = [t \in Tokens |-> NoIssue]
    /\ approvedIds = {}
    /\ ioFaults = FALSE
    /\ concurrent = concurrent_updates
    /\ InitNoJobs
    /\ InitNoSession

\* _is_allowed (handlers.py:198-208) applied to an update
CheckAccess(h) ==
    /\ pc[h] = "idle"
    /\ \A g \in Handlers : pc[g] = "idle"
    /\ \E s \in AnySenders :
        LET u == [NoUpdate EXCEPT !.kind = "check", !.user = s[1], !.chat = s[2]]
        IN  /\ upd' = [upd EXCEPT ![h] = u]
            /\ out' = [out EXCEPT ![h] =
                          [NoOutcome EXCEPT !.allowed =
                              IsAllowed(u, beta_enabled, admin_chat_id, allowed_chat_ids,
                                        runtime_allowed_ids)]]
    /\ pc' = [pc EXCEPT ![h] = "done"]
    /\ UNCHANGED <<cfgVars, gateVars, format_selections, envVars, histVars, jobVars, sessionVars>>

NextAccess == \E h \in Handlers : CheckAccess(h) \/ Return(h)

SpecAccess == InitAccess /\ [][NextAccess]_vars

(* --------------------------- Progress Bridge -------------------------- *)
\* ProgressReporter (handlers.py:42-104). The monotonic clock counts whole
\* seconds; the value a callback writes is its ordinal, so that every
\* callback writes a value of its own.

\* handlers.py:82-83: the interval under which _schedule_update returns
\* without an edit
DebounceSeconds == 2

\* Variant of the debounce test that lets every callback through.
NeverSuppressed(t, last) == FALSE

\* _schedule_update, lines 82-84: now - self._last_send < 2.0
Suppressed(t, last) == t - last < DebounceSeconds

\* _format_text (handlers.py:69-79): the status line (a default when no
\* status was reported), the progress line when there is a progress, the
\* details line when there are details
FormatText(st) ==
    <<[line |-> "status", value |-> st.status]>>
    \o (IF st.progress # None THEN <<[line |-> "progress", value |-> st.progress]>> ELSE <<>>)
    \o (IF st.details # None THEN <<[line |-> "details", value |-> st.details]>> ELSE <<>>)

\* One scheduled edit_message_text of the status message.
Edit(isForced, text, t, n) == [forced |-> isForced, text |-> text, at |-> t, after |-> n]

\* Variant of force_update that goes through the debounce test.
DebouncedForceUpdate(es, text, t, last, n) ==
    IF Suppressed(t, last) THEN es ELSE Append(es, Edit(TRUE, text, t, n))

\* force_update (handlers.py:96-104): one edit with the given text
ForceUpdate(es, text, t, last, n) == Append(es, Edit(TRUE, text, t, n))

\* The texts of the force_update calls of _handle_download.
ForcedTexts == {"uploading", "failure"}

\* The worker that calls the reporter makes one call at a time: the calls of
\* download_with_callbacks are sequential, and DownloadThread.run reports
\* from the job's own execution context.
WorkerReady == bpc = "idle"

\* A download starts: ProgressReporter.__init__ (handlers.py:43-52) at some
\* reading of the monotonic clock, whose reference point is arbitrary.
InitBridge ==
    /\ mono \in {0, DebounceSeconds + 1}
    /\ last_send = 0
    /\ progress_state = [status |-> None, progress |-> None, details |-> None]
    /\ bpc = "idle"
    /\ edits = <<>>
    /\ ncallbacks = 0
    /\ force_calls = <<>>

\* The process with gating disabled and no update in flight: one download
\* session reports through its ProgressReporter.
InitBridgeOnly ==
    /\ beta_enabled = FALSE
    /\ admin_chat_id = None
    /\ env_allowed_ids = {}
    /\ InitGate
    /\ ioFaults = FALSE
    /\ concurrent = concurrent_updates
    /\ InitNoJobs
    /\ InitBridge
    /\ dpc = "off"
    /\ dinput = NoInput
    /\ dfiles = NoFiles
    /\ send_path = "none"
    /\ uploads = <<>>
    /\ loop_thread = "free"
    /\ InitNoCall

\* status / progress / details (handlers.py:54-67), first half: the field is
\* set under the lock
Callback(kind) ==
    /\ WorkerReady
    /\ ncallbacks < MaxCallbacks
    /\ ncallbacks' = ncallbacks + 1
    /\ progress_state' = [progress_state EXCEPT ![kind] = ncallbacks + 1]
    /\ bpc' = "scheduling"
    /\ UNCHANGED <<frontVars, jobVars, fnVars, deliveryVars, mono, last_send, edits, force_calls>>

\* _schedule_update (handlers.py:81-94): nothing when the last edit is
\* recent, else _last_send is set and an edit with the snapshot is scheduled
ScheduleUpdate ==
    /\ bpc = "scheduling"
    /\ IF Suppressed(mono, last_send)
       THEN UNCHANGED <<last_send, edits>>
       ELSE /\ last_send' = mono
            /\ edits' = Append(edits, Edit(FALSE, FormatText(progress_state), mono, ncallbacks))
    /\ bpc' = "idle"
    /\ UNCHANGED <<frontVars, jobVars, fnVars, deliveryVars, mono, progress_state, ncallbacks,
                   force_calls>>

\* handlers.py:698-708: download_with_callbacks returns to _handle_download;
\* no callback comes after it
JobReturns ==
    /\ bpc = "idle"
    /\ bpc' = "closed"
    /\ UNCHANGED <<frontVars, jobVars, fnVars, deliveryVars, mono, last_send, progress_state, edits,
                   ncallbacks, force_calls>>

\* _handle_download calls reporter.force_update after the job returned
\* (handlers.py:713-788)
Force(text) ==
    /\ bpc = "closed"
    /\ Len(force_calls) < MaxForces
    /\ force_calls' = Append(force_calls, text)
    /\ edits' = ForceUpdate(edits, text, mono, last_send, ncallbacks)
    /\ UNCHANGED <<frontVars, jobVars, fnVars, deliveryVars, mono, last_send, progress_state, bpc,
                   ncallbacks>>

\* A second passes on the monotonic clock.
MonoTick ==
    /\ bpc # "off"
    /\ mono < MaxMono
    /\ mono' = mono + 1
    /\ UNCHANGED <<frontVars, jobVars, fnVars, deliveryVars, last_send, progress_state, bpc, edits,
                   ncallbacks, force_calls>>

NextBridge ==
    \/ \E kind \in {"status", "progress", "details"} : Callback(kind)
    \/ ScheduleUpdate
    \/ JobReturns
    \/ \E text \in ForcedTexts : Force(text)
    \/ MonoTick

SpecBridge == InitBridgeOnly /\ [][NextBridge]_vars

(* ------------------------------ delivery ------------------------------ *)
\* _handle_download after the job returned (handlers.py:710-795). Sizes are
\* in units of the ceiling's granularity.

\* config.max_upload_mb (config.py:98)
UploadCeiling == 2

\* path.stat() raised OSError (handlers.py:301-302)
Unreadable == -1

\* The sizes a file is inspected with: below the ceiling, exactly at it,
\* above it, or not readable.
FileSizes == {UploadCeiling - 1, UploadCeiling, UploadCeiling + 1, Unreadable}

\* Variant of the size test that lets a file through when its size cannot be
\* read.
TooLargeWhenReadable(size) == size # Unreadable /\ size > UploadCeiling

\* _file_too_large (handlers.py:298-303)
FileTooLarge(size) == IF size = Unreadable THEN TRUE ELSE size > UploadCeiling

\* _convert_to_mp4_for_telegram (handlers.py:369-405): no ffmpeg; the file
\* already has the .mp4 suffix; ffmpeg failed; or a converted copy
TranscodeOutcomes == {"unavailable", "same", "failed", "converted"}

\* The size of the file at a path of the session.
SizeAt(files, path) == IF path = "converted" THEN files.converted ELSE files.original

\* An upload call (send_audio, send_video, send_document) and whether it
\* returned or raised.
Upload(kind, path, size, ok) == [kind |-> kind, path |-> path, size |-> size, ok |-> ok]

\* Variant of the upload fallback that gives up after the first call.
NoFallback(kind) == <<>>

\* handlers.py:769-778: the calls to try after a failed upload of the kind
FallbackAfter(kind) == IF kind = "video" THEN <<"document">> ELSE <<>>

\* reporter.force_update(text) from _handle_download
Forced(text) ==
    /\ force_calls' = Append(force_calls, text)
    /\ edits' = ForceUpdate(edits, text, mono, last_send, ncallbacks)

\* The "too large" exit (handlers.py:721-725, 762-766): the text of the
\* message reads the size again, which raises when it cannot be read
TooLargeExit(size) ==
    IF size = Unreadable
    THEN /\ dpc' = "raised"
         /\ UNCHANGED <<edits, force_calls>>
    ELSE /\ dpc' = "failed"
         /\ Forced("too_large")

\* The job has returned with its result (service.py:168-176: ok with the
\* path of a file, or an error) for an option that is audio-only or not and
\* in a chat-compatible container or not; config.cleanup_after_send
\* (config.py:129) is set or not.
InitDelivery ==
    /\ dpc = "result"
    /\ dinput \in [ok : BOOLEAN, audio : BOOLEAN, compatible : BOOLEAN, cleanup : BOOLEAN]
    /\ \E size \in FileSizes :
        dfiles = [NoFiles EXCEPT !.original = IF dinput.ok THEN size ELSE None]
    /\ dinput.ok \/ (~dinput.audio /\ ~dinput.compatible)
    /\ send_path = "none"
    /\ uploads = <<>>
    /\ loop_thread = "free"
    /\ InitNoCall
    /\ mono = DebounceSeconds + 1
    /\ last_send \in {0, DebounceSeconds + 1}
    /\ progress_state = [status |-> None, progress |-> None, details |-> None]
    /\ bpc = "closed"
    /\ edits = <<>>
    /\ ncallbacks = 0
    /\ force_calls = <<>>

\* The process with gating disabled and no update in flight: one download
\* session after its job.
InitDeliveryOnly ==
    /\ beta_enabled = FALSE
    /\ admin_chat_id = None
    /\ env_allowed_ids = {}
    /\ InitGate
    /\ ioFaults = FALSE
    /\ concurrent = concurrent_updates
    /\ InitNoJobs
    /\ InitDelivery

\* handlers.py:710-727: the result is an error; or the file is too large; or
\* the upload is announced
AfterJob ==
    /\ dpc = "result"
    /\ bpc = "closed"
    /\ IF ~dinput.ok
       THEN /\ dpc' = "failed"
            /\ Forced("classified_error")
       ELSE IF FileTooLarge(dfiles.original)
       THEN TooLargeExit(dfiles.original)
       ELSE /\ dpc' = "post"
            /\ Forced("uploading")
    /\ UNCHANGED <<frontVars, jobVars, fnVars, mono, last_send, progress_state, bpc, ncallbacks,
                   dinput, dfiles, send_path, uploads, loop_thread>>

\* handlers.py:753-757 and _convert_to_mp4_for_telegram up to its
\* subprocess.run (lines 370-397): an audio or chat-compatible file is sent
\* as it is; so is the file when ffmpeg is missing or the file has the .mp4
\* suffix already; else the conversion is announced and ffmpeg is run by a
\* plain call, in the thread of the event loop
PostProcess ==
    /\ dpc = "post"
    /\ IF dinput.audio \/ dinput.compatible
       THEN /\ send_path' = "original"
            /\ dpc' = "check2"
            /\ UNCHANGED <<dfiles, edits, force_calls, loop_thread>>
       ELSE \E res \in {"unavailable", "same", "run"} :
            IF res = "run"
            THEN /\ Forced("converting")
                 /\ dpc' = "transcoding"
                 /\ loop_thread' = "transcode"
                 /\ UNCHANGED <<dfiles, send_path>>
            ELSE /\ dfiles' = [dfiles EXCEPT !.transcode = res]
                 /\ send_path' = "original"
                 /\ dpc' = "check2"
                 /\ UNCHANGED <<edits, force_calls, loop_thread>>
    /\ UNCHANGED <<frontVars, jobVars, fnVars, mono, last_send, progress_state, bpc, ncallbacks,
                   dinput, uploads>>

\* _convert_to_mp4_for_telegram, lines 397-405, and handlers.py:758-760:
\* ffmpeg has exited; send_path is the converted copy when there is one
TranscodeDone ==
    /\ dpc = "transcoding"
    /\ \E res \in {"failed", "converted"} :
        /\ IF res = "converted"
           THEN \E size \in FileSizes :
                    dfiles' = [dfiles EXCEPT !.transcode = res, !.converted = size]
           ELSE dfiles' = [dfiles EXCEPT !.transcode = res]
        /\ send_path' = IF res = "converted" THEN "converted" ELSE "original"
    /\ dpc' = "check2"
    /\ loop_thread' = "free"
    /\ UNCHANGED <<frontVars, jobVars, fnVars, bridgeVars, dinput, uploads>>

\* handlers.py:762-766: the size test on send_path
SecondCheck ==
    /\ dpc = "check2"
    /\ IF FileTooLarge(SizeAt(dfiles, send_path))
       THEN TooLargeExit(SizeAt(dfiles, send_path))
       ELSE /\ dpc' = "send"
            /\ UNCHANGED <<edits, force_calls>>
    /\ UNCHANGED <<frontVars, jobVars, fnVars, mono, last_send, progress_state, bpc, ncallbacks,
                   dinput, dfiles, send_path, uploads, loop_thread>>

\* handlers.py:768-782: send_audio for an audio-only option; else send_video
\* and, when it raises, send_document; a failure of the last call is reported
Send ==
    /\ dpc = "send"
    /\ LET size == SizeAt(dfiles, send_path)
           kind == IF dinput.audio THEN "audio" ELSE "video"
           fallback == FallbackAfter(kind)
           sent(us) == /\ uploads' = uploads \o us
                       /\ dpc' = "sent"
                       /\ UNCHANGED <<edits, force_calls>>
           failed(us) == /\ uploads' = uploads \o us
                         /\ dpc' = "failed"
                         /\ Forced("send_failed")
       IN  \E firstOk \in BOOLEAN, secondOk \in BOOLEAN :
            IF firstOk THEN sent(<<Upload(kind, send_path, size, TRUE)>>)
            ELSE IF fallback = <<>> THEN failed(<<Upload(kind, send_path, size, FALSE)>>)
            ELSE LET first == Upload(kind, send_path, size, FALSE)
                     second == Upload(fallback[1], send_path, size, secondOk)
                 IN  IF secondOk THEN sent(<<first, second>>)
                     ELSE failed(<<first, second>>)
    /\ UNCHANGED <<frontVars, jobVars, fnVars, mono, last_send, progress_state, bpc, ncallbacks,
                   dinput, dfiles, send_path, loop_thread>>

\* Variant of the cleanup that removes the downloaded file only.
CleanupOriginalOnly(cleanup, files) == IF cleanup THEN {"original"} ELSE {}

\* handlers.py:752-760 and 790-795: the paths that are unlinked after the
\* upload, cleanup_paths when cleanup_after_send is set
CleanupPaths(cleanup, files) ==
    IF ~cleanup THEN {}
    ELSE {"original"} \cup (IF files.transcode = "converted" THEN {"converted"} ELSE {})

\* handlers.py:784-795: the status message is deleted, or "done" is written
\* into it; then the files of the session are removed
Finish ==
    /\ dpc = "sent"
    /\ \E deleted \in BOOLEAN :
        IF deleted THEN UNCHANGED <<edits, force_calls>> ELSE Forced("done")
    /\ dfiles' = [dfiles EXCEPT !.deleted = CleanupPaths(dinput.cleanup, dfiles)]
    /\ dpc' = "done"
    /\ UNCHANGED <<frontVars, jobVars, fnVars, mono, last_send, progress_state, bpc, ncallbacks,
                   dinput, send_path, uploads, loop_thread>>

NextDelivery ==
    \/ AfterJob
    \/ PostProcess
    \/ TranscodeDone
    \/ SecondCheck
    \/ Send
    \/ Finish

SpecDelivery == InitDeliveryOnly /\ [][NextDelivery]_vars

\* One download session from the start of its job to the end of
\* _handle_download (handlers.py:685-795): the reporter is built, the job
\* reports through it from the worker thread, and _handle_download is at its
\* await (line 698) until the job returns the result that the job's option
\* and outcome determine.
InitSession ==
    /\ beta_enabled = FALSE
    /\ admin_chat_id = None
    /\ env_allowed_ids = {}
    /\ InitGate
    /\ ioFaults = FALSE
    /\ concurrent = concurrent_updates
    /\ InitNoJobs
    /\ InitBridge
    /\ dpc = "result"
    /\ dinput \in [ok : BOOLEAN, audio : BOOLEAN, compatible : BOOLEAN, cleanup : BOOLEAN]
    /\ \E size \in FileSizes :
        dfiles = [NoFiles EXCEPT !.original = IF dinput.ok THEN size ELSE None]
    /\ dinput.ok \/ (~dinput.audio /\ ~dinput.compatible)
    /\ send_path = "none"
    /\ uploads = <<>>
    /\ loop_thread = "free"
    /\ InitNoCall

NextSession ==
    \/ \E kind \in {"status", "progress", "details"} : Callback(kind)
    \/ ScheduleUpdate
    \/ JobReturns
    \/ MonoTick
    \/ NextDelivery

SpecSession == InitSession /\ [][NextSession]_vars

(* ------------------------- credential expiry -------------------------- *)
\* is_cookie_file_expired (ytsage_cookies.py:89-108) on a cookie file given
\* by its lines. Times are small integers; a line is a comment or blank line,
\* a line with fewer than seven fields, or an entry with a domain that
\* matches the cookie domains or not and an expiry field.

\* The expiry field is not an integer (int(parts[4]) raises ValueError).
NotANumber == -1

\* The sizes of the inspected files and clocks.
MaxEntries == 2
MaxNow == 2

\* config.cookie_refresh_max_age_seconds when it is set
MaxAgeSeconds == 1

CookieLines ==
    {[kind |-> "comment", match |-> FALSE, expiry |-> 0],
     [kind |-> "short", match |-> TRUE, expiry |-> 0]}
    \cup [kind : {"entry"}, match : BOOLEAN, expiry : {NotANumber} \cup 0..(MaxNow + 1)]

CookieFiles == UNION {[1..n -> CookieLines] : n \in 0..MaxEntries}

\* Variant of the validity test that takes a zero expiry for a date.
FutureOnly(expiry, now_ts) == expiry > now_ts

\* _cookie_file_has_valid_entries, line 80
EntryValid(expiry, now_ts) == expiry = 0 \/ expiry > now_ts

\* _cookie_file_has_valid_entries (ytsage_cookies.py:57-86): the lines are
\* scanned up to the first valid entry; a file that cannot be read has no
\* relevant entry
RECURSIVE ScanEntries(_, _, _, _)
ScanEntries(lines, i, now_ts, relevant) ==
    IF i > Len(lines) THEN [has_relevant |-> relevant, has_valid |-> FALSE]
    ELSE IF lines[i].kind # "entry" \/ ~lines[i].match
    THEN ScanEntries(lines, i + 1, now_ts, relevant)
    ELSE IF lines[i].expiry = NotANumber
    THEN ScanEntries(lines, i + 1, now_ts, TRUE)
    ELSE IF EntryValid(lines[i].expiry, now_ts)
    THEN [has_relevant |-> TRUE, has_valid |-> TRUE]
    ELSE ScanEntries(lines, i + 1, now_ts, TRUE)

cookie_file_has_valid_entries(lines, now_ts, readOk) ==
    IF ~readOk THEN [has_relevant |-> FALSE, has_valid |-> FALSE]
    ELSE ScanEntries(lines, 1, now_ts, FALSE)

\* is_cookie_file_expired (ytsage_cookies.py:89-108)
is_cookie_file_expired(f, max_age_seconds, now_ts) ==
    IF ~f.exists THEN TRUE
    ELSE IF max_age_seconds # None /\ ~f.statOk THEN FALSE
    ELSE IF max_age_seconds # None /\ f.age > max_age_seconds THEN TRUE
    ELSE LET r == cookie_file_has_valid_entries(f.lines, now_ts, f.readOk)
         IN  IF ~r.has_relevant THEN TRUE ELSE ~r.has_valid

NotCalled == [done |-> FALSE, value |-> FALSE]

\* A cookie file, a configuration and a clock, and no call made yet.
InitExpiry ==
    /\ call_args \in [file : [exists : BOOLEAN, statOk : BOOLEAN, readOk : BOOLEAN,
                              age : {MaxAgeSeconds, MaxAgeSeconds + 1},
                              lines : CookieFiles],
                      max_age_seconds : {None, MaxAgeSeconds},
                      now_ts : 1..MaxNow]
    /\ call_result = NotCalled

\* The process with gating disabled and no update in flight: one call of
\* is_cookie_file_expired.
InitExpiryOnly ==
    /\ beta_enabled = FALSE
    /\ admin_chat_id = None
    /\ env_allowed_ids = {}
    /\ InitGate
    /\ ioFaults = FALSE
    /\ concurrent = concurrent_updates
    /\ InitNoJobs
    /\ InitNoReporter
    /\ InitNoDelivery
    /\ InitExpiry

CallIsExpired ==
    /\ ~call_result.done
    /\ call_result' = [done |-> TRUE,
                       value |-> is_cookie_file_expired(call_args.file,
                                                        call_args.max_age_seconds,
                                                        call_args.now_ts)]
    /\ UNCHANGED <<frontVars, jobVars, bridgeVars, deliveryVars, call_args>>

SpecExpiry == InitExpiryOnly /\ [][CallIsExpired]_vars

(* ---------------------------- Format Ranker --------------------------- *)
\* The ranking part of list_formats (service.py:462-541) on the "formats"
\* list of the discovery. A record has a format_id or not, a height (None
\* when it has none), a vcodec ("video", "none" or "absent"), an acodec or
\* not, and its filesize, tbr and abr as a triple of small numbers.

\* The length of the inspected format lists.
MaxFormats == 3

\* service.py:501: the cap on the video options
MaxVideoOptions == 8

Qualities == {<<0, 0, 0>>, <<0, 0, 1>>, <<0, 1, 0>>, <<1, 0, 0>>}

FormatRecords ==
    [format_id : {TRUE}, height : {None, 1, 2}, vcodec : {"video"}, acodec : BOOLEAN,
     quality : Qualities]
    \cup [format_id : {FALSE}, height : {None, 1, 2}, vcodec : {"video"}, acodec : BOOLEAN,
          quality : {<<0, 0, 0>>}]
    \cup [format_id : {TRUE}, height : {None}, vcodec : {"none", "absent"}, acodec : BOOLEAN,
          quality : Qualities]
    \cup [format_id : {FALSE}, height : {None}, vcodec : {"none", "absent"}, acodec : BOOLEAN,
          quality : {<<0, 0, 0>>}]

FormatLists == UNION {[1..n -> FormatRecords] : n \in 0..MaxFormats}

\* Variant of the score without the bonus for formats that carry audio.
ScoreWithoutBonus(fmt, prefer_progressive) == <<0>> \o fmt.quality

\* _pick_best_by_quality, _score (service.py:225-235)
Score(fmt, prefer_progressive) ==
    <<IF prefer_progressive /\ fmt.acodec THEN 1 ELSE 0>> \o fmt.quality

\* Python's order of tuples of the same length
RECURSIVE TupleLess(_, _)
TupleLess(a, b) ==
    IF a = <<>> THEN FALSE
    ELSE IF Head(a) # Head(b) THEN Head(a) < Head(b)
    ELSE TupleLess(Tail(a), Tail(b))

\* max(candidates, key=_score): the first of the candidates with the
\* greatest score
RECURSIVE MaxByScore(_, _, _)
MaxByScore(candidates, best, prefer_progressive) ==
    IF candidates = <<>> THEN best
    ELSE MaxByScore(Tail(candidates),
                    IF TupleLess(Score(best, prefer_progressive),
                                 Score(Head(candidates), prefer_progressive))
                    THEN Head(candidates) ELSE best,
                    prefer_progressive)

NoFormat ==
    [format_id |-> FALSE, height |-> None, vcodec |-> "absent", acodec |-> FALSE,
     quality |-> <<0, 0, 0>>]

\* _pick_best_by_quality (service.py:220-237); NoFormat stands for None
PickBestByQuality(formats, prefer_progressive) ==
    LET candidates == SelectSeq(formats, LAMBDA f : f.format_id)
    IN  IF candidates = <<>> THEN NoFormat
        ELSE MaxByScore(Tail(candidates), Head(candidates), prefer_progressive)

\* sorted(..., reverse=True) on a set of heights
RECURSIVE SortedDescending(_)
SortedDescending(S) ==
    IF S = {} THEN <<>>
    ELSE LET top == CHOOSE x \in S : \A y \in S : y <= x
         IN  <<top>> \o SortedDescending(S \ {top})

FormatOption(best, height, audioOnly) ==
    [height |-> height, is_audio_only |-> audioOnly,
     format_has_audio |-> IF audioOnly THEN TRUE ELSE best.acodec,
     quality |-> best.quality]

\* Variant of the option loop without the cap.
RECURSIVE VideoOptionsUncapped(_, _, _)
VideoOptionsUncapped(video_formats, heights, options) ==
    IF heights = <<>> THEN options
    ELSE LET candidates == SelectSeq(video_formats, LAMBDA f : f.height = Head(heights))
             best == PickBestByQuality(candidates, TRUE)
         IN  VideoOptionsUncapped(video_formats, Tail(heights),
                                  IF best.format_id
                                  THEN Append(options, FormatOption(best, Head(heights), FALSE))
                                  ELSE options)

\* service.py:476-502: one option per height, from the greatest height on,
\* up to MaxVideoOptions options
RECURSIVE VideoOptions(_, _, _)
VideoOptions(video_formats, heights, options) ==
    IF heights = <<>> THEN options
    ELSE LET candidates == SelectSeq(video_formats, LAMBDA f : f.height = Head(heights))
             best == PickBestByQuality(candidates, TRUE)
         IN  IF ~best.format_id
             THEN VideoOptions(video_formats, Tail(heights), options)
             ELSE IF Len(options) + 1 >= MaxVideoOptions
             THEN Append(options, FormatOption(best, Head(heights), FALSE))
             ELSE VideoOptions(video_formats, Tail(heights),
                               Append(options, FormatOption(best, Head(heights), FALSE)))

\* service.py:469-527: the options of a format list
RankFormats(formats) ==
    LET audio_formats == SelectSeq(formats, LAMBDA f : f.vcodec = "none" /\ f.acodec)
        video_formats == SelectSeq(formats, LAMBDA f : f.vcodec = "video")
        heights == SortedDescending({video_formats[i].height : i \in DOMAIN video_formats}
                                    \ {None})
        videos == VideoOptions(video_formats, heights, <<>>)
        best_audio == PickBestByQuality(audio_formats, FALSE)
    IN  IF best_audio.format_id
        THEN Append(videos, FormatOption(best_audio, None, TRUE))
        ELSE videos

\* The number of heights of the long format lists.
MaxHeights == 10

\* Long format lists: one video record for each height of a set of heights,
\* in ascending order, behind an audio record or not.
TallRecord(h) ==
    [format_id |-> TRUE, height |-> h, vcodec |-> "video", acodec |-> FALSE,
     quality |-> <<0, 0, 1>>]

AudioRecord ==
    [format_id |-> TRUE, height |-> None, vcodec |-> "none", acodec |-> TRUE,
     quality |-> <<0, 0, 1>>]

TallList(H, withAudio) ==
    LET down == SortedDescending(H)
    IN  (IF withAudio THEN <<AudioRecord>> ELSE <<>>)
            \o [i \in 1..Len(down) |-> TallRecord(down[Len(down) + 1 - i])]

TallLists == {TallList(H, a) : H \in SUBSET (1..MaxHeights), a \in BOOLEAN}

NotRanked == [done |-> FALSE, value |-> <<>>]

\* A format list of a discovery, and no call made yet.
InitRanker ==
    /\ call_args \in FormatLists \cup TallLists
    /\ call_result = NotRanked

\* The process with gating disabled and no update in flight: one ranking.
InitRankerOnly ==
    /\ beta_enabled = FALSE
    /\ admin_chat_id = None
    /\ env_allowed_ids = {}
    /\ InitGate
    /\ ioFaults = FALSE
    /\ concurrent = concurrent_updates
    /\ InitNoJobs
    /\ InitNoReporter
    /\ InitNoDelivery
    /\ InitRanker

CallRankFormats ==
    /\ ~call_result.done
    /\ call_result' = [done |-> TRUE, value |-> RankFormats(call_args)]
    /\ UNCHANGED <<frontVars, jobVars, bridgeVars, deliveryVars, call_args>>

SpecRanker == InitRankerOnly /\ [][CallRankFormats]_vars

(* ------------------------------ properties ---------------------------- *)
\* A handler that has run its pick (format_selection_callback) on a
\* well-formed "fmt:<token>:<idx>" callback.
PickedBy(h) ==
    /\ pc[h] \in {"downloading", "done"}
    /\ upd[h].kind = "pick"
    /\ upd[h].arg = "ok"

\* A handler that has finished an access-checked request (a command or a
\* text message, through _ensure_allowed).
RequestDone(h) ==
    /\ pc[h] = "done"
    /\ upd[h].kind \in {"start", "url", "dlcmd"}

\* Gating is enabled, an administrator is configured, and the sender of u is
\* neither the administrator nor in an allow-list.
NotListed(u) ==
    /\ beta_enabled
    /\ admin_chat_id # None
    /\ ~IsAdmin(u, admin_chat_id)
    /\ {u.user, u.chat} \cap CombinedAllowedIds(allowed_chat_ids, runtime_allowed_ids) = {}

\* The attempts of a job's trace and its forced (on-failure) refreshes.
RunsOf(tr) == SelectSeq(tr, LAMBDA e : e.ev = "run")
ForcedOf(tr) == SelectSeq(tr, LAMBDA e : e.ev = "forced")
RetryPath(tr) == SelectSeq(tr, LAMBDA e : e.ev \in {"run", "forced"})

\* C1 - Single-use law of the Selection Store: no token ever starts more
\* than one download, and every pick that looks a token up after a pick has
\* consumed it (whoever sends it, whatever happened to the store in between)
\* finds no Selection, is answered "expired" and starts no download.
C1_SingleUse ==
    /\ \A t \in Tokens : downloadsOf[t] <= 1
    /\ \A h \in Handlers :
        (PickedBy(h) /\ out[h].lookedUp /\ out[h].afterUse)
            => /\ ~out[h].found
               /\ out[h].reply = "expired"
               /\ ~out[h].download

\* A pick by somebody else than the owner on a consumed token, answered
\* "expired".
C1_Witness ==
    \E h \in Handlers :
        /\ PickedBy(h) /\ out[h].lookedUp /\ out[h].afterUse
        /\ upd[h].user # issued[upd[h].tok].owner
        /\ out[h].reply = "expired"

\* A pick by the owner of token t on one of the buttons that were shown.
OwnerPick(h, t) ==
    /\ PickedBy(h)
    /\ upd[h].tok = t
    /\ issued[t].nopts > 0
    /\ upd[h].user = issued[t].owner
    /\ upd[h].idx < issued[t].nopts

\* C2 - Under a dispatcher that interleaves handlers: of two or more picks
\* by the owner on the same token (same or different button), at most one
\* consumes the Selection and reaches the download; every other one observes
\* "expired".
C2_AtMostOneConsumes ==
    \A t \in Tokens :
        /\ downloadsOf[t] <= 1
        /\ \A h, g \in Handlers :
            (h # g /\ OwnerPick(h, t) /\ OwnerPick(g, t))
                => /\ ~(out[h].download /\ out[g].download)
                   /\ out[h].download \/ out[h].reply = "expired"

\* Two picks by the owner in flight at once, on different buttons of one
\* token: one downloads, the other one got "expired".
C2_Witness ==
    \E t \in Tokens : \E h, g \in Handlers :
        /\ h # g /\ OwnerPick(h, t) /\ OwnerPick(g, t)
        /\ upd[h].idx # upd[g].idx
        /\ pc[h] = "downloading"
        /\ out[g].reply = "expired"

\* A step in which a handler accesses the Selection Store: the take of a
\* pick or the put of a discovery.
StoreAccess ==
    \E h \in Handlers :
        \/ pc[h] = "idle" /\ out'[h].lookedUp
        \/ pc[h] = "discovering" /\ out'[h].reply = "prompt"

\* C3 - TTL eviction: a pick on a Selection older than SELECTION_TTL_SECONDS
\* never consumes it (it is answered "expired"), and after every store
\* access (put or take) no entry older than the TTL is left in the store.
C3_TtlEviction ==
    /\ [](\A h \in Handlers :
            (PickedBy(h) /\ out[h].lookedUp /\ out[h].stale)
                => out[h].reply = "expired" /\ ~out[h].download)
    /\ [][StoreAccess =>
            \A k \in DOMAIN format_selections' :
                now' - format_selections'[k].created_at <= SELECTION_TTL_SECONDS]_vars

\* A pick by the owner on a valid button of a Selection that is still in the
\* store but older than the TTL: answered "expired".
C3_Witness ==
    \E h \in Handlers :
        /\ OwnerPick(h, upd[h].tok)
        /\ out[h].stale
        /\ out[h].reply = "expired"

\* C4 - Ownership check without consumption: a pick by a principal other
\* than the owner of a stored Selection is answered "not for you" and starts
\* no download, and the step leaves the Selection in the store as it was and
\* the downloads as they were.
C4_ForeignPickRefused ==
    /\ [](\A h \in Handlers :
            (PickedBy(h) /\ out[h].found /\ out[h].owner # None
                /\ upd[h].user # None /\ upd[h].user # out[h].owner)
                => out[h].reply = "not_for_you" /\ ~out[h].download)
    /\ [][\A h \in Handlers :
            (pc[h] = "idle" /\ out'[h].reply = "not_for_you")
                => /\ upd'[h].tok \in DOMAIN format_selections
                   /\ upd'[h].tok \in DOMAIN format_selections'
                   /\ format_selections'[upd'[h].tok] = format_selections[upd'[h].tok]
                   /\ downloadsOf' = downloadsOf]_vars

\* The owner picks a token after somebody else was refused on it, and the
\* download starts.
C4_Witness ==
    \E h \in Handlers :
        /\ OwnerPick(h, upd[h].tok)
        /\ out[h].afterRefusal
        /\ pc[h] = "downloading"

\* C5 - Job-retry law: a finished job whose first attempt failed with an
\* auth-rejection error, with auto-refresh enabled and a forced refresh that
\* reported success, has run the job exactly twice, with the forced refresh
\* between the two attempts, and its second attempt used the configured
\* credential file that the refresh rewrote.
C5_RetryOnceAfterRefresh ==
    \A j \in Jobs :
        LET path == RetryPath(jtrace[j])
        IN  (/\ jpc[j] = "returned"
             /\ Len(RunsOf(jtrace[j])) >= 1
             /\ RunsOf(jtrace[j])[1].res = "auth"
             /\ cookie_cfg.cookie_auto_refresh
             /\ \E i \in DOMAIN path : path[i].ev = "forced" /\ path[i].res = "ok")
            => /\ Len(path) = 3
               /\ path[1].ev = "run"
               /\ path[2].ev = "forced"
               /\ path[3].ev = "run"
               /\ path[3].cookie = cookie_cfg.cookie_file
               /\ path[3].cookie # None

\* A finished job that was retried after a successful forced refresh.
C5_Witness ==
    \E j \in Jobs :
        /\ jpc[j] = "returned"
        /\ Len(RunsOf(jtrace[j])) = 2
        /\ RunsOf(jtrace[j])[1].res = "auth"
        /\ \E i \in DOMAIN jtrace[j] : jtrace[j][i].ev = "forced" /\ jtrace[j][i].res = "ok"

\* C6 - Retry bound: a job is attempted at most twice and forces at most one
\* refresh; after the second attempt the job has returned, with the result
\* of that attempt, whatever it is.
C6_RetryBound ==
    \A j \in Jobs :
        /\ Len(RunsOf(jtrace[j])) <= 2
        /\ Len(ForcedOf(jtrace[j])) <= 1
        /\ Len(RunsOf(jtrace[j])) = 2
            => jpc[j] = "returned" /\ jresult[j] = RunsOf(jtrace[j])[2].res

\* A job whose second attempt failed with an auth-rejection error again.
C6_Witness ==
    \E j \in Jobs :
        /\ Len(RunsOf(jtrace[j])) = 2
        /\ RunsOf(jtrace[j])[2].res = "auth"
        /\ jpc[j] = "returned"

C9_ExactlyOneNotification ==
    \A p \in UserIds :
        (/\ NotListed([NoUpdate EXCEPT !.user = p, !.chat = p])
         /\ p \in FileLines(attempts_file)
         /\ \A h \in Handlers : upd[h].user = p => pc[h] = "done")
            => notifCount[p] = 1

ApprovalStep(h) == pc[h] = "idle" /\ pc'[h] = "done" /\ upd'[h].kind = "beta"

\* The approval callback of handler h is an 'approve' with a principal id,
\* sent by the configured administrator while gating is enabled.
AdminApproves(h) ==
    /\ ApprovalStep(h)
    /\ upd'[h].arg = "approve"
    /\ beta_enabled
    /\ admin_chat_id # None
    /\ admin_chat_id \in {upd'[h].user, upd'[h].chat}

\* is_allowed of principal p in a private chat, in the state after a step
AllowedAfter(p) ==
    IsAllowed([NoUpdate EXCEPT !.user = p, !.chat = p], beta_enabled', admin_chat_id',
              allowed_chat_ids', runtime_allowed_ids')

\* C11 - AllowList frame: an approval callback that is not an 'approve' of
\* the configured administrator with gating enabled (a decline, a callback
\* of somebody else, a callback while gating is disabled, a malformed one)
\* leaves the runtime set, the configured set and the whitelist file as they
\* were; the three change in no other step than such an approve or a restart
\* of the process, and is_allowed of every principal keeps its value in
\* every step that is not such an approve.
C11_AllowListFrame ==
    [][/\ \A h \in Handlers :
            (ApprovalStep(h) /\ ~AdminApproves(h))
                => UNCHANGED <<runtime_allowed_ids, allowed_chat_ids, whitelist_file>>
       /\ <<runtime_allowed_ids, allowed_chat_ids, whitelist_file>>'
                # <<runtime_allowed_ids, allowed_chat_ids, whitelist_file>>
            => \/ \E h \in Handlers : AdminApproves(h)
               \/ pc' = pc /\ \A h \in Handlers : pc[h] = "idle"
       /\ (\A h \in Handlers : ~AdminApproves(h))
            => \A p \in UserIds :
                AllowedAfter(p) =
                    IsAllowed([NoUpdate EXCEPT !.user = p, !.chat = p], beta_enabled,
                              admin_chat_id, allowed_chat_ids, runtime_allowed_ids)]_vars

\* Somebody who is not the administrator sent an 'approve' for a principal
\* that is in no allow-list: refused, and the principal is still denied.
C11_Witness ==
    \E h \in Handlers :
        /\ pc[h] = "done" /\ upd[h].kind = "beta" /\ upd[h].arg = "approve"
        /\ beta_enabled /\ admin_chat_id # None
        /\ admin_chat_id \notin {upd[h].user, upd[h].chat}
        /\ out[h].reply = "no_rights"
        /\ ~IsAllowed([NoUpdate EXCEPT !.user = upd[h].target, !.chat = upd[h].target],
                      beta_enabled, admin_chat_id, allowed_chat_ids, runtime_allowed_ids)

\* The ids of an update's sender.
SenderIds(u) == {u.user, u.chat} \ {None}

\* C12 - Access decision with gating enabled: is_allowed is true for every
\* update whose user id or chat id is the configured administrator, and for
\* every other update it is true iff the user id or the chat id is in the
\* union of the configured allow-set and the runtime allow-set.
C12_AccessDecision ==
    \A h \in Handlers :
        (pc[h] = "done" /\ upd[h].kind = "check" /\ beta_enabled)
            => out[h].allowed =
                (\/ admin_chat_id # None /\ admin_chat_id \in SenderIds(upd[h])
                 \/ SenderIds(upd[h]) \cap
                        ((IF allowed_chat_ids.isNone THEN {} ELSE allowed_chat_ids.ids)
                            \cup runtime_allowed_ids) # {})

\* A channel post (no user) in a chat that was approved at run time, with a
\* configured allow-set that does not hold it: allowed through the union.
C12_Witness ==
    \E h \in Handlers :
        /\ pc[h] = "done" /\ upd[h].kind = "check" /\ beta_enabled
        /\ upd[h].user = None
        /\ upd[h].chat \in runtime_allowed_ids
        /\ ~allowed_chat_ids.isNone /\ upd[h].chat \notin allowed_chat_ids.ids
        /\ out[h].allowed

\* C13 - Gating bypass: with gating disabled every access check lets the
\* principal through, and no access check records an attempt (in memory or
\* in the attempts log), replies 'pending' or notifies the administrator.
C13_GatingBypass ==
    ~beta_enabled
        => /\ attempts_seen = {} /\ ~attempts_loaded /\ attempts_file = <<>>
           /\ \A p \in UserIds : notifCount[p] = 0
           /\ \A h \in Handlers :
                (pc[h] # "idle" /\ upd[h].kind \in {"start", "url", "dlcmd", "pick"})
                    => /\ out[h].allowed
                       /\ out[h].pending = 0
                       /\ out[h].notified = 0
                       /\ out[h].reply \notin {"pending", "restricted"}

\* With gating disabled, a principal that is in no allow-list sends a URL
\* and its discovery starts.
C13_Witness ==
    \E h \in Handlers :
        /\ ~beta_enabled /\ env_allowed_ids = {} /\ admin_chat_id # None
        /\ upd[h].kind = "url" /\ upd[h].user = 2
        /\ out[h].discovery

\* The jobs with a credential refresh (external command or browser export)
\* in flight, on the pre-flight path or on the forced path.
RefreshInFlight == {j \in Jobs : jpc[j] \in {"prefresh", "frefresh"}}

Flushes == SelectSeq(edits, LAMBDA e : ~e.forced)
ForcedEdits == SelectSeq(edits, LAMBDA e : e.forced)

\* C15 - Debounce: whatever the sequence of status, progress and details
\* callbacks of the job on one ProgressReporter, any two non-forced edits of
\* the status message are at least DebounceSeconds apart, so that no window
\* of two seconds holds more than one of them.
C15_Debounce ==
    \A i, j \in DOMAIN Flushes :
        i < j => Flushes[j].at - Flushes[i].at >= DebounceSeconds

\* A burst: a callback that is flushed and two more callbacks (of the two
\* other kinds) within two seconds of it, all back in the worker: the flush
\* is still the only edit.
C15_Witness ==
    /\ bpc = "idle"
    /\ Len(Flushes) = 1
    /\ ncallbacks - Flushes[1].after >= 2
    /\ mono - Flushes[1].at < DebounceSeconds
    /\ progress_state.status # None
    /\ progress_state.progress # None
    /\ progress_state.details # None

\* C16 - force_update bypasses the debounce: the forced edits of the status
\* message are, in order, the texts of the force_update calls, one edit per
\* call, whatever the time since the last flush.
C16_ForceUpdateAlwaysEdits ==
    /\ Len(ForcedEdits) = Len(force_calls)
    /\ \A k \in DOMAIN force_calls : ForcedEdits[k].text = force_calls[k]

\* A force_update less than two seconds after a flush, at the end of a burst
\* whose last callbacks were suppressed: it is in the edits.
C16_Witness ==
    /\ Len(Flushes) >= 1
    /\ Len(ForcedEdits) >= 1
    /\ ForcedEdits[1].at - Flushes[Len(Flushes)].at < DebounceSeconds
    /\ ForcedEdits[1].after > Flushes[Len(Flushes)].after
    /\ ForcedEdits[1].text = "uploading"

\* C17 - Debounced flushing delivers the latest state: when the job has
\* returned (no callback follows, and the reporter has no timer of its own
\* that could flush later), the value written by its last callback has been
\* emitted by a flush.
C17_LatestStateDelivered ==
    (bpc = "closed" /\ ncallbacks > 0)
        => \E i \in DOMAIN Flushes : Flushes[i].after = ncallbacks

\* The fixed texts by which the handlers report a failed session: the
\* classified discovery error, "expired", "could not process the choice"
\* (for a pick that is no number and for one that is out of range) and the
\* "not for you" alert.
FailureTexts == {"disc_error", "expired", "bad_choice", "not_for_you", "bad_index"}

\* The handler h has ended a session of an allowed principal without a
\* download: a discovery that gave no prompt, or a pick that started nothing.
SessionFailed(h) ==
    /\ pc[h] = "done"
    /\ out[h].allowed
    /\ \/ upd[h].kind = "pick" /\ ~out[h].download
       \/ upd[h].kind \in {"url", "dlcmd"} /\ out[h].discovery /\ out[h].reply # "prompt"

\* C18 - Every session that goes to Failed in the front end (discovery
\* error, expired token, wrong owner, malformed pick) has produced exactly
\* one user-facing message, and it is one of the fixed texts.
C18_OneMessagePerFailure ==
    \A h \in Handlers : SessionFailed(h) => out[h].reply \in FailureTexts

\* The size is readable and does not exceed the ceiling.
WithinCeiling(size) == size # Unreadable /\ size <= UploadCeiling

\* The session has passed the first size test, and the second one.
PastFirstCheck == dpc \in {"post", "transcoding", "check2", "send", "sent", "done"}
PastSecondCheck == dpc \in {"send", "sent", "done"}

TranscodeFailed ==
    /\ ~dinput.audio
    /\ ~dinput.compatible
    /\ dfiles.transcode \in {"unavailable", "failed"}

\* C20 - Transcode failure is non-fatal: after a failed or unavailable
\* transcode the session goes on to the delivery with the downloaded file
\* (it fails only if a later step fails), and the file is sent as a generic
\* document: every upload call of the session is a document upload of the
\* original file.
C20_TranscodeFallbackDocument ==
    TranscodeFailed
        => /\ send_path = "original"
           /\ dpc \in {"check2", "send", "sent", "done", "failed"}
           /\ dpc = "failed" => uploads # <<>>
           /\ \A i \in DOMAIN uploads :
                uploads[i].kind = "document" /\ uploads[i].path = "original"

\* The slow calls that are in progress: a discovery (list_formats) or a
\* download job that a handler is waiting for, a credential refresh inside a
\* job, the transcode of a delivery.
SlowCallsInProgress ==
    {c \in {"discovery", "download", "refresh", "transcode"} :
        \/ c = "discovery" /\ \E h \in Handlers : pc[h] = "discovering"
        \/ c = "download" /\ (\/ \E h \in Handlers : pc[h] = "downloading"
                              \/ \E j \in Jobs : jpc[j] \in {"run1", "run2"})
        \/ c = "refresh" /\ \E j \in Jobs : jpc[j] \in {"prefresh", "frefresh"}
        \/ c = "transcode" /\ dpc = "transcoding"}

\* C21 - No slow call runs on the dispatch loop: in every state where a
\* discovery, a download job, a transcode or a credential refresh is in
\* progress, the thread of the event loop is not inside that call.
C21_SlowCallsOffLoop ==
    SlowCallsInProgress # {} => loop_thread = "free"

\* C22 - The front end stays responsive during a download: in every state
\* where a handler is waiting for its download job, an update of another
\* chat is inbound and a handler coroutine is free to take it, that update (a
\* command, a URL message or a format pick) can be dispatched at once.
C22_ResponsiveDuringDownload ==
    \A h \in Handlers :
        (/\ pc[h] = "downloading"
         /\ nUpdates < MaxUpdates
         /\ \E g \in Handlers \ {h} : pc[g] = "idle")
            => ENABLED (\E g \in Handlers \ {h} : GateStep(g) \/ PickStep(g))

\* The entries of a cookie file: its lines with seven fields or more and a
\* domain among the cookie domains.
MatchingEntries(lines) ==
    {i \in DOMAIN lines : lines[i].kind = "entry" /\ lines[i].match}

\* is_cookie_file_expired was called on a file that exists.
ExpiryChecked == call_result.done /\ call_args.file.exists

\* The only matching entry of the file has an expiry strictly in the past.
OnlyEntryPast ==
    \E i \in MatchingEntries(call_args.file.lines) :
        /\ MatchingEntries(call_args.file.lines) = {i}
        /\ call_args.file.lines[i].expiry > 0
        /\ call_args.file.lines[i].expiry < call_args.now_ts

\* At least one matching entry has expiry 0 or an expiry in the future.
SomeEntryValid ==
    \E i \in MatchingEntries(call_args.file.lines) :
        \/ call_args.file.lines[i].expiry = 0
        \/ call_args.file.lines[i].expiry > call_args.now_ts

\* The modification time and the content of the file can be read.
FileReadable == call_args.file.statOk /\ call_args.file.readOk

\* The file is not older than the configured maximum age, if there is one.
WithinMaxAge ==
    \/ call_args.max_age_seconds = None
    \/ call_args.file.age <= call_args.max_age_seconds

VideoOptionsOf(options) == SelectSeq(options, LAMBDA o : ~o.is_audio_only)
CandidatesAt(formats, height) ==
    {i \in DOMAIN formats :
        /\ formats[i].vcodec = "video"
        /\ formats[i].format_id
        /\ formats[i].height = height}

\* C24 - Format Ranker order and progressive preference: the video options
\* come in strictly descending height order, and the option of a height
\* carries audio whenever at least one candidate of that height with a
\* format id carries audio, whatever the sizes and bitrates of the others.
C24_RankerOrderAndProgressive ==
    call_result.done
        => LET videos == VideoOptionsOf(call_result.value)
           IN  /\ \A i, j \in DOMAIN videos : i < j => videos[i].height > videos[j].height
               /\ \A i \in DOMAIN videos :
                    (\E k \in CandidatesAt(call_args, videos[i].height) : call_args[k].acodec)
                        => videos[i].format_has_audio

\* A list with two candidates of the greater height, the first without
\* audio and larger than the second, which carries audio, and a candidate
\* of the lower height: two options, the first with audio and with the
\* quality of the smaller candidate.
C24_Witness ==
    /\ call_result.done
    /\ Len(call_args) = 3
    /\ CandidatesAt(call_args, 2) = {1, 2}
    /\ CandidatesAt(call_args, 1) = {3}
    /\ ~call_args[1].acodec /\ call_args[1].quality = <<1, 0, 0>>
    /\ call_args[2].acodec /\ call_args[2].quality = <<0, 1, 0>>
    /\ Len(call_result.value) = 2
    /\ call_result.value[1].height = 2
    /\ call_result.value[1].format_has_audio
    /\ call_result.value[1].quality = <<0, 1, 0>>
    /\ call_result.value[2].height = 1

\* A step in which handler h handles an approval callback or a format pick
\* whose payload is malformed or stale: wrong number of fields, an id or an
\* index that is no integer, an unknown action, or a token that is not in
\* the store (unknown, used or expired).
HandlesBadPayload(h) ==
    /\ pc[h] = "idle"
    /\ pc'[h] = "done"
    /\ \/ upd'[h].kind = "beta" /\ upd'[h].arg \in {"badparts", "badid", "other"}
       \/ /\ upd'[h].kind = "pick"
          /\ out'[h].allowed
          /\ \/ upd'[h].arg \in {"badparts", "badidx"}
             \/ out'[h].lookedUp /\ ~out'[h].found

\* C25 - Malformed or stale callback payloads: the step that handles one
\* answers the callback query (the handler ends normally with a reply) and
\* leaves the allow-lists, the whitelist file and the Selection Store as
\* they were.
C25_BadPayloadAnsweredAndIgnored ==
    [][\A h \in Handlers :
        HandlesBadPayload(h)
            => /\ out'[h].reply # "none"
               /\ runtime_allowed_ids' = runtime_allowed_ids
               /\ allowed_chat_ids' = allowed_chat_ids
               /\ whitelist_file' = whitelist_file
               /\ format_selections' = format_selections]_vars

\* C26: the credential-refresh command is bounded by a timeout: a job that
\* is in a refresh eventually leaves it, even when the command never exits,
\* and the refresh lock, once taken, is eventually released.
InRefresh(j) == jpc[j] \in {"prefresh", "frefresh", "hung"}

C26_RefreshTerminates ==
    /\ \A j \in Jobs : InRefresh(j) ~> ~InRefresh(j)
    /\ (refresh_lock # None) ~> (refresh_lock = None)


\* C27 - No retry without its preconditions: a finished job whose first
\* attempt failed with an error text that holds no auth-rejection phrase in
\* any case, or with auto-refresh disabled, ran once, did nothing after that
\* attempt (no refresh) and returned its failure; a finished job whose forced
\* refresh reported failure ran once and returned the first failure.
C27_NoRetryWithoutPreconditions ==
    \A j \in Jobs :
        LET runs == RunsOf(jtrace[j])
            first == runs[1].res
        IN  (jpc[j] = "returned" /\ Len(runs) >= 1 /\ first # "ok")
            => /\ (first \notin {"auth", "AUTH"} \/ ~cookie_cfg.cookie_auto_refresh)
                    => /\ Len(runs) = 1
                       /\ jtrace[j][Len(jtrace[j])].ev = "run"
                       /\ ForcedOf(jtrace[j]) = <<>>
                       /\ jresult[j] = first
               /\ (\E i \in DOMAIN jtrace[j] :
                        jtrace[j][i].ev = "forced" /\ jtrace[j][i].res = "failed")
                    => /\ Len(runs) = 1
                       /\ first \in {"auth", "AUTH"}
                       /\ jresult[j] = first

\* A finished job whose only attempt failed with an auth-rejection text in
\* mixed case and whose forced refresh reported failure, and another state
\* in which a job failed once without such a text, with auto-refresh enabled.
C27_Witness ==
    \E j \in Jobs :
        /\ jpc[j] = "returned"
        /\ Len(RunsOf(jtrace[j])) = 1
        /\ RunsOf(jtrace[j])[1].res = "AUTH"
        /\ cookie_cfg.cookie_auto_refresh
        /\ \E i \in DOMAIN jtrace[j] : jtrace[j][i].ev = "forced" /\ jtrace[j][i].res = "failed"
        /\ jresult[j] = "AUTH"


\* C28 - Double-checked refresh: a job that waited for the refresh lock
\* checks the credential file again once it holds the lock; when the file is
\* fresh by then (another job's refresh succeeded) it leaves ensure_fresh
\* without a refresh: no refresh starts, the file and the lock are left as
\* they are, and the job goes on to run. At most one pre-flight refresh is in
\* progress at a time, by the job that holds the lock.
Preflights(tr) == SelectSeq(tr, LAMBDA e : e.ev = "preflight")

Rechecks(tr) == SelectSeq(tr, LAMBDA e : e.ev = "recheck")

C28_DoubleCheckedRefresh ==
    [][/\ \A j \in Jobs :
            (jpc[j] = "lock" /\ jpc'[j] # "lock" /\ cookie_state = "fresh")
                => /\ jpc'[j] = "bind"
                   /\ \A k \in Jobs : jpc'[k] = "prefresh" => jpc[k] = "prefresh"
                   /\ \A k \in Jobs : Preflights(jtrace'[k]) = Preflights(jtrace[k])
                   /\ cookie_state' = cookie_state
                   /\ refresh_lock' = None
       /\ \A j, k \in Jobs :
            (jpc'[j] = "prefresh" /\ jpc'[k] = "prefresh") => (j = k /\ refresh_lock' = j)
      ]_vars

\* Two jobs found the file stale before either took the lock; one refreshed
\* it with success, the other then took the lock, found the file fresh and
\* went on without a refresh: one refresh in all.
C28_Witness ==
    \E j, k \in Jobs :
        /\ j # k
        /\ Len(Preflights(jtrace[k])) = 1
        /\ Preflights(jtrace[k])[1].res = "ok"
        /\ Len(Rechecks(jtrace[j])) = 1
        /\ Preflights(jtrace[j]) = <<>>
        /\ jpc[j] = "returned"
        /\ jpc[k] = "returned"


\* C29 - Pre-flight refresh is optional and non-fatal: with auto-refresh
\* disabled or no credential file configured a job never waits for the lock,
\* never starts a pre-flight refresh and goes from the entry of ensure_fresh
\* straight to the job; a pre-flight refresh that reports failure releases
\* the lock and leaves the job about to run, with no result yet; and every
\* first attempt is made with the configured credential file when that file
\* exists at that moment and with none when it does not, whether a refresh
\* was tried or not.
RefreshOff == ~cookie_cfg.cookie_auto_refresh \/ cookie_cfg.cookie_file = None

LastEvent(tr) == tr[Len(tr)]

C29_PreflightOptionalNonFatal ==
    [][\A j \in Jobs :
        /\ (RefreshOff /\ jpc[j] = "ensure" /\ jpc'[j] # "ensure")
            => /\ jpc'[j] = "bind"
               /\ jtrace' = jtrace
               /\ cookie_state' = cookie_state
               /\ refresh_lock' = refresh_lock
        /\ RefreshOff => /\ Preflights(jtrace'[j]) = <<>>
                         /\ jpc'[j] \notin {"lock", "prefresh"}
        /\ (/\ jpc[j] = "prefresh" /\ jpc'[j] \notin {"prefresh", "hung"}
            /\ LastEvent(jtrace'[j]).res = "failed")
            => /\ jpc'[j] = "bind"
               /\ jresult'[j] = "none"
               /\ refresh_lock' = None
        /\ (jpc[j] = "bind" /\ jpc'[j] # "bind")
            => /\ jpc'[j] = "run1"
               /\ jcookie'[j] = IF cookie_cfg.cookie_file # None /\ cookie_state # "absent"
                                THEN cookie_cfg.cookie_file
                                ELSE None
        /\ (jpc[j] = "run1" /\ jpc'[j] # "run1")
            => /\ LastEvent(jtrace'[j]).ev = "run"
               /\ LastEvent(jtrace'[j]).cookie = jcookie[j]
      ]_vars

\* A finished job whose pre-flight refresh failed, the credential file being
\* configured but absent, and whose first attempt then ran with no
\* credential file.
C29_Witness ==
    \E j \in Jobs :
        /\ jpc[j] = "returned"
        /\ cookie_cfg.cookie_file # None
        /\ Len(Preflights(jtrace[j])) = 1
        /\ Preflights(jtrace[j])[1].res = "failed"
        /\ Len(RunsOf(jtrace[j])) >= 1
        /\ RunsOf(jtrace[j])[1].cookie = None


\* C30 - The AllowList is monotone within a process: no step other than a
\* restart of the process removes an id from the runtime allow-set, from the
\* configured allow-set or from the whitelist file, or turns a configured
\* allow-set into none; so every sender that is allowed before the step is
\* allowed after it.
AllowedNow(s, cfgAllowed, runtime) ==
    IsAllowed([user |-> s[1], chat |-> s[2]], beta_enabled, admin_chat_id, cfgAllowed, runtime)

C30_AllowListMonotone ==
    [][Restart
        \/ /\ runtime_allowed_ids \subseteq runtime_allowed_ids'
           /\ allowed_chat_ids'.isNone = allowed_chat_ids.isNone
           /\ allowed_chat_ids.ids \subseteq allowed_chat_ids'.ids
           /\ FileLines(whitelist_file) \subseteq FileLines(whitelist_file')
           /\ \A s \in Senders :
                AllowedNow(s, allowed_chat_ids, runtime_allowed_ids)
                    => AllowedNow(s, allowed_chat_ids', runtime_allowed_ids')
      ]_vars

\* The administrator declined a request of a principal approved earlier, with
\* a second id approved as well: the principal is still in the runtime
\* allow-set and in the whitelist file, below the other id.
C30_Witness ==
    \E h \in Handlers :
        /\ pc[h] = "done"
        /\ upd[h].kind = "beta"
        /\ out[h].reply = "declined"
        /\ upd[h].target \in runtime_allowed_ids
        /\ upd[h].target \in FileLines(whitelist_file)
        /\ Len(whitelist_file) >= 2


\* The session of a token is closed: the token was issued, its Selection is
\* no longer in the store and no handler is running its download.
SessionClosed(t) ==
    /\ issued[t] # NoIssue
    /\ t \notin DOMAIN format_selections
    /\ \A h \in Handlers : ~(pc[h] = "downloading" /\ upd[h].tok = t)

\* The same of the state a step leads to.
SessionClosedAfter(t) ==
    /\ issued'[t] # NoIssue
    /\ t \notin DOMAIN format_selections'
    /\ \A h \in Handlers : ~(pc'[h] = "downloading" /\ upd'[h].tok = t)

\* A closed session stays closed and starts no download; a pick answered
\* "expired" and the end of a download (failed or not) leave the session of
\* their token closed; a failed discovery stores nothing.
ClosedIsAbsorbing ==
    /\ \A t \in Tokens :
        SessionClosed(t) => SessionClosedAfter(t) /\ downloadsOf'[t] = downloadsOf[t]
    /\ \A h \in Handlers :
        /\ (/\ pc[h] = "idle" /\ upd'[h].kind = "pick" /\ upd'[h].arg = "ok"
            /\ issued[upd'[h].tok] # NoIssue
            /\ out'[h].reply = "expired")
            => SessionClosedAfter(upd'[h].tok)
        /\ (pc[h] = "downloading" /\ pc'[h] # "downloading")
            => SessionClosedAfter(upd[h].tok)
        /\ (pc[h] = "discovering" /\ out'[h].reply = "disc_error")
            => /\ pc'[h] = "done"
               /\ format_selections' = format_selections
               /\ issued' = issued

\* C31 as stated - Failed is absorbing, a pick refused for a wrong owner
\* counting as an entry into Failed: besides the above, no download starts
\* on a token after a pick on it was refused for a wrong owner.
C31_FailedAbsorbingAnyRefusal ==
    [][/\ ClosedIsAbsorbing
       /\ \A h \in Handlers :
            (pc[h] = "idle" /\ pc'[h] = "downloading") => ~out'[h].afterRefusal
      ]_vars

\* C31 - Failed is absorbing: once the session of a token has failed with a
\* discovery error, an expired token or a failed download or delivery, no
\* later event moves it on: its Selection is gone for good and no download
\* starts on its token. (A pick refused for a wrong owner or a wrong index
\* leaves the Selection in the store: the session is still awaiting its
\* selection.)
C31_FailedAbsorbing == [][ClosedIsAbsorbing]_vars

\* A pick on a token whose Selection outlived its TTL was answered
\* "expired", and the session of that token is closed.
C31_Witness ==
    \E h \in Handlers :
        /\ pc[h] = "done"
        /\ upd[h].kind = "pick"
        /\ out[h].reply = "expired"
        /\ out[h].stale
        /\ SessionClosed(upd[h].tok)


\* C32 - Discovery outcome and the Selection Store: the step that ends a
\* discovery with options (the prompt is shown) adds exactly one Selection,
\* under a token never issued before, with the requester, the chat, the
\* option list and the creation time of that request, and changes no other
\* Selection that survives the sweep; the step that ends a failed or empty
\* discovery shows an error, no prompt, and leaves the store as it was; no
\* other step adds a Selection; every stored Selection has at least one
\* option.
NewSelections == (DOMAIN format_selections') \ (DOMAIN format_selections)

C32_DiscoveryAndStore ==
    [][/\ \A h \in Handlers :
            (pc[h] = "discovering" /\ pc'[h] # "discovering")
                => IF out'[h].reply = "prompt"
                   THEN /\ Cardinality(NewSelections) = 1
                        /\ \A t \in NewSelections :
                            /\ issued[t] = NoIssue
                            /\ format_selections'[t].owner_id = upd[h].user
                            /\ format_selections'[t].chat_id = upd[h].chat
                            /\ format_selections'[t].created_at = now
                            /\ format_selections'[t].nopts >= 1
                        /\ \A k \in (DOMAIN format_selections') \ NewSelections :
                            format_selections'[k] = format_selections[k]
                   ELSE /\ out'[h].reply = "disc_error"
                        /\ format_selections' = format_selections
       /\ NewSelections # {}
            => \E h \in Handlers : pc[h] = "discovering" /\ out'[h].reply = "prompt"
       /\ \A t \in DOMAIN format_selections' : format_selections'[t].nopts >= 1
      ]_vars

\* Two requests were answered with a prompt and both Selections are in the
\* store, each with its own requester.
C32_Witness ==
    /\ Cardinality(DOMAIN format_selections) = 2
    /\ \E h \in Handlers :
        /\ pc[h] = "done"
        /\ out[h].reply = "prompt"
        /\ \E t \in DOMAIN format_selections :
            /\ format_selections[t].owner_id = upd[h].user
            /\ format_selections[t].created_at = now


\* Gating is enabled and the sender of u is neither the administrator nor,
\* by user id or chat id, in the configured or the runtime allow-set.
Outsider(u) ==
    /\ beta_enabled
    /\ admin_chat_id = None \/ admin_chat_id \notin {u.user, u.chat}
    /\ {u.user, u.chat} \cap
            ((IF ~allowed_chat_ids.isNone THEN allowed_chat_ids.ids ELSE {})
                \cup runtime_allowed_ids) = {}

\* C33 - Access gating of the whole session: a request (command or text
\* message) whose sender is not allowed when it arrives starts no discovery
\* and changes nothing in the Selection Store; a pick whose sender is not
\* allowed when it arrives consumes no Selection and starts no download;
\* a request whose URL fails the host validation starts no discovery; and a
\* handler that is in a discovery or in a download works for a sender that
\* is allowed.
C33_GatedSession ==
    [][\A h \in Handlers :
        /\ (pc[h] = "idle" /\ pc'[h] # "idle" /\ Outsider(upd'[h])
            /\ upd'[h].kind \in {"start", "url", "dlcmd", "pick"})
            => /\ pc'[h] \notin {"discovering", "downloading"}
               /\ ~out'[h].discovery
               /\ ~out'[h].download
               /\ format_selections' = format_selections
               /\ downloadsOf' = downloadsOf
        /\ (pc[h] = "idle" /\ pc'[h] # "idle" /\ upd'[h].kind \in {"url", "dlcmd"}
            /\ upd'[h].arg # "yt")
            => pc'[h] # "discovering" /\ ~out'[h].discovery
        /\ pc[h] \in {"discovering", "downloading"} => ~Outsider(upd[h])
        /\ (pc[h] = "discovering" /\ pc'[h] # "discovering"
            /\ format_selections' # format_selections)
            => ~Outsider(upd[h])
      ]_vars

\* With gating enabled, a pick by a principal that is not allowed on a token
\* whose Selection is in the store, with a valid index, was refused: the
\* Selection is still there and no download of it was started.
C33_Witness ==
    \E h \in Handlers :
        /\ pc[h] = "done"
        /\ upd[h].kind = "pick"
        /\ upd[h].arg = "ok"
        /\ Outsider(upd[h])
        /\ out[h].reply = "restricted"
        /\ upd[h].tok \in DOMAIN format_selections
        /\ upd[h].idx < format_selections[upd[h].tok].nopts
        /\ downloadsOf[upd[h].tok] = 0


\* C34 - Upload fallback: the first upload call of a session is send_audio
\* for an audio option and send_video for a video option; a send_video that
\* failed is followed by exactly one send_document of the same file, and by
\* nothing else; a failed send_audio and a failed send_document are the last
\* call of the session, which has then failed; a call that succeeded is the
\* last one and the session has not failed; no session makes more than two
\* upload calls.
C34_UploadFallback ==
    /\ Len(uploads) <= 2
    /\ uploads # <<>> => uploads[1].kind = (IF dinput.audio THEN "audio" ELSE "video")
    /\ \A i \in DOMAIN uploads :
        /\ (uploads[i].kind = "video" /\ ~uploads[i].ok)
            => /\ Len(uploads) = i + 1
               /\ uploads[i + 1].kind = "document"
               /\ uploads[i + 1].path = uploads[i].path
               /\ uploads[i + 1].size = uploads[i].size
        /\ (uploads[i].kind \in {"audio", "document"} /\ ~uploads[i].ok)
            => i = Len(uploads) /\ dpc = "failed"
        /\ uploads[i].ok => i = Len(uploads) /\ dpc \in {"sent", "done"}
        /\ uploads[i].kind = "document" => i = 2 /\ ~uploads[1].ok

\* A video session whose send_video failed and whose send_document went
\* through: two calls for the same file, and the session is done.
C34_Witness ==
    /\ dpc = "done"
    /\ Len(uploads) = 2
    /\ uploads[1].kind = "video" /\ ~uploads[1].ok
    /\ uploads[2].kind = "document" /\ uploads[2].ok
    /\ uploads[2].path = uploads[1].path


\* The files the session has written: the downloaded file and, when the
\* transcode gave one, the converted copy.
SessionArtifacts ==
    (IF dfiles.original # None THEN {"original"} ELSE {})
        \cup (IF dfiles.converted # None THEN {"converted"} ELSE {})

UsableHeights(formats) ==
    {formats[i].height : i \in {k \in DOMAIN formats :
        formats[k].vcodec = "video" /\ formats[k].format_id /\ formats[k].height # None}}

\* C36 - Shape of the ranked option list: at most 8 video options, no two of
\* the same height, for the greatest heights of the list that have a usable
\* record (all of them when they are fewer than 8); at most one audio-only
\* option, in the last place; at most 9 options in all.
C36_OptionListShape ==
    call_result.done
        => LET options == call_result.value
               videos == VideoOptionsOf(options)
               shown == {videos[i].height : i \in DOMAIN videos}
               usable == UsableHeights(call_args)
           IN  /\ Len(videos) <= 8
               /\ Len(options) <= 9
               /\ \A i, j \in DOMAIN videos : i # j => videos[i].height # videos[j].height
               /\ shown \subseteq usable
               /\ \A x \in usable : \A y \in shown : x > y => x \in shown
               /\ Len(videos) < 8 => shown = usable
               /\ \A i \in DOMAIN options : options[i].is_audio_only => i = Len(options)

\* A list with ten heights and an audio record in front: nine options, the
\* eight greatest heights and the audio-only option last.
C36_Witness ==
    /\ call_result.done
    /\ Cardinality(UsableHeights(call_args)) = 10
    /\ call_args[1].vcodec = "none"
    /\ Len(call_result.value) = 9
    /\ call_result.value[1].height = 10
    /\ call_result.value[8].height = 3
    /\ call_result.value[9].is_audio_only


\* C37 - Format partition: a record counts as audio-only when its vcodec is
\* absent or "none" and it has an acodec, and as video when it has a vcodec:
\* a ranking ends with an audio-only option exactly when the list holds an
\* audio-only record with a format id, and its video options are for the
\* heights of the video records; so a list whose only record with a format
\* id has no vcodec and an acodec gives one audio-only option, not an empty
\* result ("no suitable formats").
AudioOnlyRecords(formats) ==
    {i \in DOMAIN formats :
        /\ formats[i].vcodec \in {"none", "absent"}
        /\ formats[i].acodec
        /\ formats[i].format_id}

C37_FormatPartition ==
    call_result.done
        => LET options == call_result.value
               videos == VideoOptionsOf(options)
           IN  /\ (AudioOnlyRecords(call_args) # {})
                    <=> (options # <<>> /\ options[Len(options)].is_audio_only)
               /\ {videos[i].height : i \in DOMAIN videos} \subseteq UsableHeights(call_args)


\* A well-formed pick that handler h takes in this step, by an allowed
\* sender who is not refused as a foreign user, on a token whose Selection is
\* in the store and within its TTL.
TakesLivePick(h) ==
    /\ pc[h] = "idle"
    /\ pc'[h] # "idle"
    /\ upd'[h].kind = "pick"
    /\ upd'[h].arg = "ok"
    /\ out'[h].allowed
    /\ upd'[h].tok \in DOMAIN format_selections
    /\ now - format_selections[upd'[h].tok].created_at <= SELECTION_TTL_SECONDS
    /\ format_selections[upd'[h].tok].owner_id \in {None, upd'[h].user}

\* C38 - A pick with an index outside the option list is refused and does
\* not consume the token: the step answers with the failure message, leaves
\* the Selection of the token in the store as it was and starts no
\* download; and every pick with an index inside the option list on a
\* Selection that is in the store (so also one that follows such a refusal)
\* consumes it and starts the download.
C38_BadIndexKeepsToken ==
    [][\A h \in Handlers :
        TakesLivePick(h)
            => LET t == upd'[h].tok
               IN  IF upd'[h].idx >= format_selections[t].nopts
                   THEN /\ out'[h].reply = "bad_index"
                        /\ pc'[h] = "done"
                        /\ t \in DOMAIN format_selections'
                        /\ format_selections'[t] = format_selections[t]
                        /\ downloadsOf' = downloadsOf
                        /\ ~out'[h].download
                   ELSE /\ out'[h].reply = "started"
                        /\ pc'[h] = "downloading"
                        /\ t \notin DOMAIN format_selections'
                        /\ downloadsOf'[t] = downloadsOf[t] + 1
      ]_vars

\* The owner of a Selection picked an index past its option list: the pick
\* was refused, the Selection is still in the store and no download of the
\* token was started.
C38_Witness ==
    \E h \in Handlers :
        /\ pc[h] = "done"
        /\ upd[h].kind = "pick"
        /\ out[h].reply = "bad_index"
        /\ upd[h].tok \in DOMAIN format_selections
        /\ format_selections[upd[h].tok].owner_id = upd[h].user
        /\ upd[h].idx >= format_selections[upd[h].tok].nopts
        /\ downloadsOf[upd[h].tok] = 0


\* A step in which handler h makes the access check of an update (a
\* request or a pick, gating enabled) whose principal id is not in the set
\* of seen ids, nor in the log when the log is still to be loaded.
ChecksUnseen(h) ==
    /\ pc[h] = "idle"
    /\ pc'[h] # "idle"
    /\ upd'[h].kind \in {"start", "url", "dlcmd", "pick"}
    /\ beta_enabled
    /\ AttemptId(upd'[h]) # None
    /\ AttemptId(upd'[h]) \notin attempts_seen
    /\ attempts_loaded \/ AttemptId(upd'[h]) \notin FileLines(attempts_file)

\* C39 - The in-memory attempts set is never ahead of the persisted log,
\* also when reads and writes of the log fail: every id of the set is a line
\* of the log; the check of an unseen id either appends the id to the log,
\* inserts it into the set and reports a new attempt, or (the append failed)
\* leaves the log as it was and the id out of the set and reports no new
\* attempt, so that the next check of the same principal is again the check
\* of an unseen id; the set changes otherwise only by the ids loaded from
\* the log by the first check, and not at all once the log is loaded.
C39_SeenNeverAheadOfLog ==
    [][/\ attempts_seen' \subseteq FileLines(attempts_file')
       /\ \A h \in Handlers :
            ChecksUnseen(h)
                => LET id == AttemptId(upd'[h])
                   IN  /\ attempts_seen' \ {id} \subseteq attempts_seen \cup FileLines(attempts_file)
                       /\ \/ /\ attempts_file' = Append(attempts_file, id)
                             /\ id \in attempts_seen'
                             /\ out'[h].isNew
                          \/ /\ attempts_file' = attempts_file
                             /\ id \notin attempts_seen'
                             /\ ~out'[h].isNew
                             /\ attempts_loaded => attempts_seen' = attempts_seen
      ]_vars

\* The append of a first attempt failed: the requester got the "pending"
\* reply, the attempt was reported as not new (no notification), and the id
\* is neither in the set nor in the log, while the id of an earlier
\* attempt is in both.
C39_Witness ==
    \E h \in Handlers :
        /\ pc[h] = "done"
        /\ upd[h].kind \in {"url", "dlcmd"}
        /\ out[h].reply = "pending"
        /\ ~out[h].isNew
        /\ out[h].notified = 0
        /\ attempts_loaded
        /\ AttemptId(upd[h]) \notin attempts_seen
        /\ AttemptId(upd[h]) \notin FileLines(attempts_file)
        /\ attempts_seen # {}


\* _handle_download has returned or raised.
SessionOver == dpc \in {"failed", "raised", "done"}

\* C40 - Ordering of the status edits of one job: every non-forced edit is
\* scheduled before the job returns and every forced edit after it, so that
\* in the sequence of scheduled edits no forced edit precedes a non-forced
\* one; and when the session is over, the last scheduled edit of its status
\* message is a forced one, never a progress snapshot (and never missing).
C40_StatusEditOrder ==
    /\ bpc # "closed" => ForcedEdits = <<>>
    /\ \A i, j \in DOMAIN edits : (i < j /\ edits[i].forced) => edits[j].forced
    /\ SessionOver => /\ edits # <<>>
                      /\ edits[Len(edits)].forced


====
